---- MODULE Spec2Model ----
(***************************************************************************)
(* PhishQS tour statistics engine (shared/tourCalculations.js).            *)
(*                                                                         *)
(* The two selectors are modelled as they are written:                     *)
(*   calculateTourProgressiveRarestSongs - a fold over the shows and their *)
(*     gap observations into an insertion-ordered Map keyed by the         *)
(*     lower-cased song name, then a stable sort by gap and slice(0, 3);   *)
(*   calculateLongestSongs - filter, stable sort by duration, slice(0, 3). *)
(*                                                                         *)
(* JavaScript values are tagged records [t, n, s]: t is the value's kind   *)
(* ("undefined", "null", "number", "string"), n its number, s its string   *)
(* as a sequence of one-character strings (so that toLowerCase is a real   *)
(* conversion).  A TypeError ends a call in pc = "thrown".                 *)
(*                                                                         *)
(* Around the engine:                                                      *)
(*   calculateCurrentTourStatistics (scripts/calculate-tour-stats.js) is   *)
(*     modelled from one await to the next; every request it awaits may    *)
(*     be answered or fail, and the catch blocks of the calculator and of  *)
(*     the two API clients are followed as written;                        *)
(*   main of the update script writes current-tour-stats.json and          *)
(*     data/state.json, run after run;                                     *)
(*   waitForRateLimit / makeRequest of an API client run against a clock   *)
(*     in milliseconds.                                                    *)
(***************************************************************************)
EXTENDS Integers, Sequences, FiniteSets, TLC

VARIABLES
    fn,             \* which selector this run calls: "rarest" or "longest"
    tourShows,      \* first argument of calculateTourProgressiveRarestSongs
    trackDurations, \* first argument of calculateLongestSongs
    arg2,           \* the second argument the caller passed
    pc,             \* position in the call
    showIndex,      \* index of the show the outer forEach is at (1-based)
    obsIndex,       \* index of the observation the inner forEach is at
    tourSongGaps,   \* the Map, as its entries in insertion order
    result,         \* the returned array
    history,        \* the caller's record of its completed invocations
    calls,          \* number of invocations the caller has made
    agg,            \* locals of the running calculateCurrentTourStatistics
    pending,        \* the request the calculator is awaiting
    fetchLog,       \* the requests sent and settled so far, in order
    failures,       \* the client calls that failed upstream in this run
    statistics,     \* the statistics object the calculator returned
    upstream,       \* condition of the upstream services
    runPc,          \* position of the update script (main)
    publishedFile,  \* current-tour-stats.json
    stateFile,      \* data/state.json
    runs,           \* number of update runs started
    env,            \* process.env of the run: PHISH_NET_API_KEY set, FORCE_UPDATE
    checkedShowDate,\* what shouldUpdate got from getLatestShowDate
    clock,          \* Date.now(), in ms
    client,         \* an API client: its rate limiter and its fetches
    gapCall,        \* a call of calculateGapFromPerformances: arguments, result
    inClass         \* a call of the calculator's own calculateRarestSongs fold

engineVars == <<fn, tourShows, trackDurations, arg2, pc, showIndex, obsIndex,
                tourSongGaps, result>>
callerVars == <<history, calls>>
aggVars == <<agg, pending, fetchLog, failures, statistics>>
runVars == <<runPc, publishedFile, stateFile, runs, env, checkedShowDate>>
clientVars == <<clock, client>>
sideVars == <<gapCall, inClass>>

\* Everything outside the engine's own call
outsideEngine == <<callerVars, aggVars, upstream, runVars, clientVars, sideVars>>
\* Everything outside the calculator's run
outsideAggregator == <<engineVars, callerVars, runVars, clientVars, sideVars>>

vars == <<engineVars, callerVars, aggVars, upstream, runVars, clientVars, sideVars>>

-----------------------------------------------------------------------------
(* Bounds of the model *)

MaxShows == 2
MaxObs == 2
MaxTracks == 4
MaxGap == 1
MaxDuration == 2

(* Program constant: slice(0, 3) *)
TopN == 3

-----------------------------------------------------------------------------
(* JavaScript values *)

Undefined == [t |-> "undefined", n |-> 0, s |-> <<>>]
Null == [t |-> "null", n |-> 0, s |-> <<>>]
Num(n) == [t |-> "number", n |-> n, s |-> <<>>]
Str(s) == [t |-> "string", n |-> 0, s |-> s]

\* ToBoolean: undefined, null, 0 and "" are falsy
Truthy(v) ==
    CASE v.t = "undefined" -> FALSE
      [] v.t = "null" -> FALSE
      [] v.t = "number" -> v.n # 0
      [] v.t = "string" -> v.s # <<>>
      [] OTHER -> TRUE

\* a || b
OrElse(a, b) == IF Truthy(a) THEN a ELSE b

\* typeof v
TypeOf(v) ==
    CASE v.t = "null" -> "object"
      [] v.t = "array" -> "object"
      [] OTHER -> v.t

LowerChar(c) ==
    CASE c = "A" -> "a"
      [] c = "B" -> "b"
      [] c = "C" -> "c"
      [] c = "D" -> "d"
      [] OTHER -> c

\* String.prototype.toLowerCase
ToLowerCase(s) == [i \in 1..Len(s) |-> LowerChar(s[i])]

Min(a, b) == IF a < b THEN a ELSE b

\* Array.isArray
IsArray(c) == c.t = "array"

\* Reading a property of null or undefined is a TypeError
ThrowsOnRead(o) == o.t \in {"null", "undefined"}

-----------------------------------------------------------------------------
(* Input values: shows, gap observations, track records *)

\* A gap observation object (an element of show.songGaps)
GapInfo(songName, gap, lastPlayed) ==
    [t |-> "object", songName |-> songName, gap |-> gap,
     lastPlayed |-> lastPlayed,
     tourDate |-> Str(<<"embedded-date">>),
     tourVenue |-> Str(<<"embedded-venue">>),
     timesPlayed |-> Undefined, historicalLastPlayed |-> Undefined]

\* null in place of an observation
NullGapInfo ==
    [t |-> "null", songName |-> Undefined, gap |-> Undefined,
     lastPlayed |-> Undefined, tourDate |-> Undefined, tourVenue |-> Undefined,
     timesPlayed |-> Undefined, historicalLastPlayed |-> Undefined]

\* An array value
Array(items) == [t |-> "array", items |-> items]
\* A value that is no array: undefined, null, or an object without length
NotArray(t) == [t |-> t, items |-> <<>>]

\* A show object
Show(showDate, venue, songGaps) ==
    [t |-> "object", showDate |-> showDate, venue |-> venue, songGaps |-> songGaps]
NullShow ==
    [t |-> "null", showDate |-> Undefined, venue |-> Undefined,
     songGaps |-> NotArray("undefined")]

\* Sequences over S of length at most n
SeqUpTo(S, n) == UNION {[1..k -> S] : k \in 0..n}

\* Song names: "A" and "a" are one song under case folding
SongNames == {<<"A">>, <<"a">>, <<"B">>}
TopSongNames == {<<"B">>, <<"C">>, <<"D">>}

LastPlayedDate == Str(<<"2016-07-22">>)

\* Well-formed observations: a song name and a gap 0..MaxGap
ValidGapInfos ==
    {GapInfo(Str(nm), Num(g), LastPlayedDate) : nm \in SongNames, g \in 0..MaxGap}

\* Malformed observation objects (the shapes of the edge-case test)
InvalidGapInfos ==
    {GapInfo(Null, Num(MaxGap), Undefined),
     GapInfo(Str(<<>>), Num(MaxGap), Undefined),
     GapInfo(Str(<<"A">>), Undefined, Undefined),
     GapInfo(Str(<<"A">>), Str(<<"9">>), Undefined),
     GapInfo(Str(<<"B">>), Num(-1), Undefined)}

\* Observations for the top-3 cut: four songs, "A" below or level with the rest
TopGapInfos ==
    {GapInfo(Str(<<"A">>), Num(g), LastPlayedDate) : g \in (MaxGap - 1)..MaxGap}
    \cup {GapInfo(Str(nm), Num(MaxGap), LastPlayedDate) : nm \in TopSongNames}

\* Observations with gap 0 for four songs
ZeroGapInfos ==
    {GapInfo(Str(nm), Num(0), LastPlayedDate) : nm \in {<<"A">>} \cup TopSongNames}
    \cup {GapInfo(Str(<<"A">>), Num(MaxGap), LastPlayedDate)}

\* (showDate, venue) of the show containers; the first is the later date
ShowHeads ==
    {<<Str(<<"2025-07-18">>), Str(<<"United Center">>)>>,
     <<Str(<<"2025-06-24">>), Undefined>>}
OneShowHead == {<<Str(<<"2025-07-18">>), Str(<<"United Center">>)>>}

\* Show objects with a songGaps array
ShowsOver(heads, gapInfos, maxObs) ==
    {Show(h[1], h[2], Array(g)) : h \in heads, g \in SeqUpTo(gapInfos, maxObs)}

\* Shows without songGaps, and null in place of a show
MalformedShows ==
    {Show(h[1], h[2], NotArray("undefined")) : h \in ShowHeads} \cup {NullShow}

\* Arrays of at most maxShows of the given shows
TourShowsOver(shows, maxShows) == {Array(s) : s \in SeqUpTo(shows, maxShows)}

\* Values passed in place of an array
NotArrays == {NotArray("null"), NotArray("undefined"), NotArray("object")}

\* The reference scenario of the engine's tests (gaps 323, 322, 522)
ReferenceShows ==
    Array(<<
      Show(Str(<<"2025-06-24">>), Str(<<"Bethel Woods Center for the Arts">>),
           Array(<<GapInfo(Str(<<"Paul and Silas">>), Num(323), Str(<<"2016-07-22">>))>>)),
      Show(Str(<<"2025-07-11">>), Str(<<"Pine Knob Music Theatre">>),
           Array(<<GapInfo(Str(<<"Devotion To A Dream">>), Num(322), Str(<<"2016-10-15">>))>>)),
      Show(Str(<<"2025-07-15">>), Str(<<"United Center">>), Array(<<>>)),
      Show(Str(<<"2025-07-18">>), Str(<<"United Center">>),
           Array(<<GapInfo(Str(<<"On Your Way Down">>), Num(522), Str(<<"2011-08-06">>))>>))
    >>)

\* A track record (an element of trackDurations)
Track(songName, durationSeconds) ==
    [t |-> "object", songName |-> songName, durationSeconds |-> durationSeconds]
NullTrack == [t |-> "null", songName |-> Undefined, durationSeconds |-> Undefined]

ValidTracks == {Track(Str(<<"S","a","n","d">>), Num(d)) : d \in 1..MaxDuration}

\* Malformed track records (the shapes of the edge-case test, and null)
InvalidTracks ==
    {Track(Str(<<"S","a","n","d">>), Undefined),
     Track(Str(<<"S","a","n","d">>), Str(<<"9">>)),
     Track(Str(<<"S","a","n","d">>), Num(0)),
     Track(Str(<<"S","a","n","d">>), Num(-1)),
     Track(Null, Num(MaxDuration)),
     Track(Str(<<>>), Num(MaxDuration)),
     NullTrack}

NoInput == NotArray("undefined")


TrackDurationsOver(tracks, maxTracks) == {Array(s) : s \in SeqUpTo(tracks, maxTracks)}

\* Observations of one song with and without lastPlayed and
\* historicalLastPlayed
HistoricalDate == Str(<<"2011-08-06">>)
DatedGapInfos ==
    {[GapInfo(Str(<<"A">>), Num(g), d[1]) EXCEPT !.historicalLastPlayed = d[2]] :
        g \in 0..MaxGap,
        d \in {<<LastPlayedDate, Undefined>>, <<Undefined, HistoricalDate>>,
               <<Undefined, Undefined>>}}

\* Show containers with a venue, without one, and with an empty one
VenueHeads ==
    ShowHeads \cup {<<Str(<<"2025-07-15">>), Str(<<>>)>>}

-----------------------------------------------------------------------------
(* calculateTourProgressiveRarestSongs *)

\* Mutant: a gap of 0 is rejected
IsValidGapInfoPositive(gapInfo) ==
    ~(~Truthy(gapInfo.songName)
      \/ TypeOf(gapInfo.gap) # "number"
      \/ gapInfo.gap.n <= 0)

\* The guard of the inner forEach: an observation that passes it is folded
IsValidGapInfo(gapInfo) ==
    ~(~Truthy(gapInfo.songName)
      \/ TypeOf(gapInfo.gap) # "number"
      \/ gapInfo.gap.n < 0)

\* Mutant: the key is the name as spelled
SongKeyExact(gapInfo) == gapInfo.songName.s

\* const songKey = gapInfo.songName.toLowerCase()
SongKey(gapInfo) == ToLowerCase(gapInfo.songName.s)

\* Map.prototype.get, as the position of the key's entry (0: undefined)
MapIndex(map, key) ==
    IF \E i \in 1..Len(map) : map[i].key = key
    THEN CHOOSE i \in 1..Len(map) : map[i].key = key
    ELSE 0

\* Mutant: setting a present key moves its entry to the end
MapSetMoveLast(map, key, value) ==
    Append(SelectSeq(map, LAMBDA e : e.key # key), [key |-> key, value |-> value])

\* Map.prototype.set: a present key keeps its place, a new key goes last
MapSet(map, key, value) ==
    LET i == MapIndex(map, key)
    IN  IF i = 0
        THEN Append(map, [key |-> key, value |-> value])
        ELSE [map EXCEPT ![i] = [key |-> key, value |-> value]]

\* Mutant: an equal gap replaces the stored entry
KeepsHigherOrEqual(map, key, gapInfo) ==
    LET i == IF \E j \in 1..Len(map) : map[j].key = key
             THEN CHOOSE j \in 1..Len(map) : map[j].key = key
             ELSE 0
    IN  i = 0 \/ gapInfo.gap.n >= map[i].value.gap.n

\* !existingGap || gapInfo.gap > existingGap.gap
KeepsHigher(map, key, gapInfo) ==
    LET i == MapIndex(map, key)
    IN  i = 0 \/ gapInfo.gap.n > map[i].value.gap.n

\* Mutant: the tour context is taken from the observation's own fields
EnhancedGapInfoEmbedded(gapInfo, show) ==
    [songName |-> gapInfo.songName,
     gap |-> gapInfo.gap,
     lastPlayed |-> OrElse(gapInfo.lastPlayed, Null),
     tourDate |-> gapInfo.tourDate,
     tourVenue |-> OrElse(gapInfo.tourVenue, Str(<<"Unknown Venue">>)),
     timesPlayed |-> OrElse(gapInfo.timesPlayed, Num(100)),
     historicalLastPlayed |-> OrElse(gapInfo.historicalLastPlayed, gapInfo.lastPlayed)]

\* The object stored for a song: the observation with its tour context
EnhancedGapInfo(gapInfo, show) ==
    [songName |-> gapInfo.songName,
     gap |-> gapInfo.gap,
     lastPlayed |-> OrElse(gapInfo.lastPlayed, Null),
     tourDate |-> show.showDate,
     tourVenue |-> OrElse(show.venue, Str(<<"Unknown Venue">>)),
     timesPlayed |-> OrElse(gapInfo.timesPlayed, Num(100)),
     historicalLastPlayed |-> OrElse(gapInfo.historicalLastPlayed, gapInfo.lastPlayed)]

\* One call of the inner forEach callback on a non-null observation
FoldGapInfo(map, gapInfo, show) ==
    IF ~IsValidGapInfo(gapInfo)
    THEN map
    ELSE IF KeepsHigher(map, SongKey(gapInfo), gapInfo)
         THEN MapSet(map, SongKey(gapInfo), EnhancedGapInfo(gapInfo, show))
         ELSE map

\* Array.from(tourSongGaps.values())
MapValues(map) == [i \in 1..Len(map) |-> map[i].value]

\* Mutant: the comparator is a.gap - b.gap (ascending)
RECURSIVE SortByGapAsc(_)
SortByGapAsc(songs) ==
    IF songs = <<>>
    THEN <<>>
    ELSE LET init == SortByGapAsc(SubSeq(songs, 1, Len(songs) - 1))
             last == songs[Len(songs)]
             p == Cardinality({i \in 1..Len(init) : init[i].gap.n <= last.gap.n})
         IN  SubSeq(init, 1, p) \o <<last>> \o SubSeq(init, p + 1, Len(init))

\* Array.prototype.sort((a, b) => b.gap - a.gap): stable, descending by gap
RECURSIVE SortByGapDesc(_)
SortByGapDesc(songs) ==
    IF songs = <<>>
    THEN <<>>
    ELSE LET init == SortByGapDesc(SubSeq(songs, 1, Len(songs) - 1))
             last == songs[Len(songs)]
             p == Cardinality({i \in 1..Len(init) : init[i].gap.n >= last.gap.n})
         IN  SubSeq(init, 1, p) \o <<last>> \o SubSeq(init, p + 1, Len(init))

\* Mutant: the second argument, when a number, is the slice's end
SliceTopArg2(arr) ==
    LET k == IF arg2.t = "number" THEN arg2.n ELSE TopN
    IN  SubSeq(arr, 1, IF Len(arr) < k THEN Len(arr) ELSE k)

\* Array.prototype.slice(0, 3)
SliceTop(arr) == SubSeq(arr, 1, IF Len(arr) < TopN THEN Len(arr) ELSE TopN)

\* const topRarestSongs = allSongs.sort(...).slice(0, 3)
TopRarestSongs(map) == SliceTop(SortByGapDesc(MapValues(map)))

-----------------------------------------------------------------------------
(* calculateLongestSongs *)

\* Mutant: a zero duration passes the filter
IsValidTrackNonNegative(track) ==
    /\ track.t = "object"
    /\ TypeOf(track.durationSeconds) = "number"
    /\ track.durationSeconds.n >= 0
    /\ Truthy(track.songName)

\* The filter predicate: track && typeof number && > 0 && songName
IsValidTrack(track) ==
    /\ track.t = "object"
    /\ TypeOf(track.durationSeconds) = "number"
    /\ track.durationSeconds.n > 0
    /\ Truthy(track.songName)

\* Array.prototype.filter, as references (positions) of the kept elements
RECURSIVE FilterValidTracks(_, _)
FilterValidTracks(items, n) ==
    IF n = 0
    THEN <<>>
    ELSE IF IsValidTrack(items[n])
         THEN Append(FilterValidTracks(items, n - 1), n)
         ELSE FilterValidTracks(items, n - 1)

\* Mutant: a sort that puts an entry before the earlier entries of its duration
RECURSIVE SortByDurationUnstable(_, _)
SortByDurationUnstable(refs, items) ==
    IF refs = <<>>
    THEN <<>>
    ELSE LET init == SortByDurationUnstable(SubSeq(refs, 1, Len(refs) - 1), items)
             last == refs[Len(refs)]
             p == Cardinality({i \in 1..Len(init) :
                     items[init[i]].durationSeconds.n > items[last].durationSeconds.n})
         IN  SubSeq(init, 1, p) \o <<last>> \o SubSeq(init, p + 1, Len(init))

\* sort((a, b) => b.durationSeconds - a.durationSeconds): stable, descending
RECURSIVE SortByDurationDesc(_, _)
SortByDurationDesc(refs, items) ==
    IF refs = <<>>
    THEN <<>>
    ELSE LET init == SortByDurationDesc(SubSeq(refs, 1, Len(refs) - 1), items)
             last == refs[Len(refs)]
             p == Cardinality({i \in 1..Len(init) :
                     items[init[i]].durationSeconds.n >= items[last].durationSeconds.n})
         IN  SubSeq(init, 1, p) \o <<last>> \o SubSeq(init, p + 1, Len(init))

\* const longestSongs = validTracks.slice(0, 3)
LongestSongs(items) ==
    SliceTop(SortByDurationDesc(FilterValidTracks(items, Len(items)), items))

-----------------------------------------------------------------------------
(* The calls, step by step *)

\* Mutant: the Map outlives the call (no new Map() per invocation)
RarestCallSharedMap ==
    /\ fn = "rarest" /\ pc = "call"
    /\ IF ThrowsOnRead(tourShows)
       THEN pc' = "thrown" /\ UNCHANGED <<showIndex, result>>
       ELSE IF ~IsArray(tourShows) \/ Len(tourShows.items) = 0
            THEN pc' = "returned" /\ result' = <<>> /\ UNCHANGED showIndex
            ELSE pc' = "show" /\ showIndex' = 1 /\ UNCHANGED result
    /\ UNCHANGED <<fn, tourShows, trackDurations, arg2, obsIndex, tourSongGaps>>
    /\ UNCHANGED outsideEngine

\* Entry of calculateTourProgressiveRarestSongs up to the start of the fold
RarestCall ==
    /\ fn = "rarest" /\ pc = "call"
    /\ IF ThrowsOnRead(tourShows)
       THEN pc' = "thrown" /\ UNCHANGED <<showIndex, result>>
       ELSE IF ~IsArray(tourShows) \/ Len(tourShows.items) = 0
            THEN pc' = "returned" /\ result' = <<>> /\ UNCHANGED showIndex
            ELSE pc' = "show" /\ showIndex' = 1 /\ UNCHANGED result
    /\ tourSongGaps' = <<>>
    /\ UNCHANGED <<fn, tourShows, trackDurations, arg2, obsIndex>>
    /\ UNCHANGED outsideEngine

\* The outer forEach callback up to its inner forEach
RarestShow ==
    /\ fn = "rarest" /\ pc = "show" /\ showIndex <= Len(tourShows.items)
    /\ LET show == tourShows.items[showIndex]
       IN  IF ThrowsOnRead(show)
           THEN pc' = "thrown" /\ UNCHANGED <<showIndex, obsIndex>>
           ELSE IF ~IsArray(show.songGaps) \/ Len(show.songGaps.items) = 0
                THEN pc' = "show" /\ showIndex' = showIndex + 1 /\ UNCHANGED obsIndex
                ELSE pc' = "obs" /\ obsIndex' = 1 /\ UNCHANGED showIndex
    /\ UNCHANGED <<fn, tourShows, trackDurations, arg2, tourSongGaps, result>>
    /\ UNCHANGED outsideEngine

\* One call of the inner forEach callback
RarestObservation ==
    /\ fn = "rarest" /\ pc = "obs"
    /\ LET show == tourShows.items[showIndex]
           gapInfo == show.songGaps.items[obsIndex]
       IN  IF ThrowsOnRead(gapInfo)
           THEN pc' = "thrown" /\ UNCHANGED <<showIndex, obsIndex, tourSongGaps>>
           ELSE /\ tourSongGaps' = FoldGapInfo(tourSongGaps, gapInfo, show)
                /\ IF obsIndex < Len(show.songGaps.items)
                   THEN pc' = "obs" /\ obsIndex' = obsIndex + 1 /\ UNCHANGED showIndex
                   ELSE pc' = "show" /\ showIndex' = showIndex + 1 /\ UNCHANGED obsIndex
    /\ UNCHANGED <<fn, tourShows, trackDurations, arg2, result>>
    /\ UNCHANGED outsideEngine

\* After the fold: sort, slice and return
RarestReturn ==
    /\ fn = "rarest" /\ pc = "show" /\ showIndex > Len(tourShows.items)
    /\ result' = TopRarestSongs(tourSongGaps)
    /\ pc' = "returned"
    /\ UNCHANGED <<fn, tourShows, trackDurations, arg2, showIndex, obsIndex, tourSongGaps>>
    /\ UNCHANGED outsideEngine

\* Mutant: the caller's array itself is filtered and sorted (no copy)
LongestCallInPlace ==
    /\ fn = "longest" /\ pc = "call"
    /\ IF ThrowsOnRead(trackDurations)
       THEN pc' = "thrown" /\ UNCHANGED <<result, trackDurations>>
       ELSE IF ~IsArray(trackDurations) \/ Len(trackDurations.items) = 0
            THEN pc' = "returned" /\ result' = <<>> /\ UNCHANGED trackDurations
            ELSE LET sorted == SortByDurationDesc(
                                   FilterValidTracks(trackDurations.items,
                                                     Len(trackDurations.items)),
                                   trackDurations.items)
                 IN  /\ pc' = "returned"
                     /\ trackDurations' =
                            Array([i \in 1..Len(sorted) |-> trackDurations.items[sorted[i]]])
                     /\ result' = [i \in 1..Min(Len(sorted), TopN) |-> i]
    /\ UNCHANGED <<fn, tourShows, arg2, showIndex, obsIndex, tourSongGaps>>
    /\ UNCHANGED outsideEngine

\* calculateLongestSongs, whole
LongestCall ==
    /\ fn = "longest" /\ pc = "call"
    /\ IF ThrowsOnRead(trackDurations)
       THEN pc' = "thrown" /\ UNCHANGED result
       ELSE IF ~IsArray(trackDurations) \/ Len(trackDurations.items) = 0
            THEN pc' = "returned" /\ result' = <<>>
            ELSE pc' = "returned" /\ result' = LongestSongs(trackDurations.items)
    /\ UNCHANGED <<fn, tourShows, trackDurations, arg2, showIndex, obsIndex, tourSongGaps>>
    /\ UNCHANGED outsideEngine

-----------------------------------------------------------------------------
(* A caller that invokes the selectors again and again *)

MaxCalls == 3

\* Arguments the caller passes to calculateTourProgressiveRarestSongs
RepeatShows ==
    {ReferenceShows,
     Array(<<>>),
     Array(<<Show(Str(<<"2025-06-24">>), Undefined,
                  Array(<<GapInfo(Str(<<"A">>), Num(1), LastPlayedDate),
                          GapInfo(Str(<<"B">>), Num(1), LastPlayedDate)>>))>>),
     Array(<<Show(Str(<<"2025-07-18">>), Str(<<"United Center">>),
                  Array(<<GapInfo(Str(<<"a">>), Num(0), LastPlayedDate)>>))>>)}

\* Arguments the caller passes to calculateLongestSongs
RepeatTracks ==
    {Array(<<>>),
     Array(<<Track(Str(<<"S","a","n","d">>), Num(1)),
             Track(Str(<<"S","a","n","d">>), Num(2))>>),
     Array(<<Track(Str(<<"S","a","n","d">>), Num(2)),
             Track(Null, Num(2)),
             Track(Str(<<"S","a","n","d">>), Num(1))>>)}

\* What the caller keeps of a completed invocation
Completed ==
    [fn |-> fn, tourShows |-> tourShows, trackDurations |-> trackDurations,
     pc |-> pc, result |-> result]

\* The caller invokes a selector again, with the same or another argument;
\* it still holds what the earlier invocations returned
Invoke ==
    /\ pc \in {"returned", "thrown"}
    /\ calls < MaxCalls
    /\ history' = Append(history, Completed)
    /\ calls' = calls + 1
    /\ fn' \in {"rarest", "longest"}
    /\ IF fn' = "rarest"
       THEN tourShows' \in RepeatShows /\ trackDurations' = NoInput
       ELSE tourShows' = NoInput /\ trackDurations' \in RepeatTracks
    /\ pc' = "call"
    /\ showIndex' = 0
    /\ obsIndex' = 0
    /\ UNCHANGED <<arg2, tourSongGaps, result>>
    /\ UNCHANGED <<aggVars, upstream, runVars, clientVars, sideVars>>

-----------------------------------------------------------------------------
(* The collaborators' answers (Phish.net and Phish.in) *)

MaxSongs == 4

SentinelVenue == Str(<<"Unknown Venue">>)

\* Show dates, oldest first; the first is before the hard-coded tour start
DateOrder == <<"2024-07-31", "2025-04-20", "2025-06-24", "2025-07-18">>
DateRank(d) == CHOOSE i \in 1..Len(DateOrder) : DateOrder[i] = d.s[1]
\* a.localeCompare(b) < 0, a <= b on ISO dates
DateBefore(a, b) == DateRank(a) < DateRank(b)
DateAtMost(a, b) == DateRank(a) <= DateRank(b)
\* showDate.substring(0, 4)
YearOf(d) == IF d.s[1] = "2024-07-31" THEN "2024" ELSE "2025"

\* const tourStartDate = "2025-06-24"
TourStartDate == Str(<<"2025-06-24">>)
\* latestShow = { showdate: "2024-07-31" }, currentTour = { tourName: "Summer Tour 2024" }
HistoricalShowDate == Str(<<"2024-07-31">>)
HistoricalTourName == Str(<<"Summer Tour 2024">>)

\* A show of the year as Phish.net lists it
NetShow(showdate, venue) == [showdate |-> showdate, venue |-> venue]

\* response.data of setlists/showyear: in or out of order, in or out of the tour
YearShowLists ==
    {<<>>,
     <<NetShow(Str(<<"2025-06-24">>), Undefined), NetShow(Str(<<"2025-07-18">>), Str(<<"United Center">>))>>,
     <<NetShow(Str(<<"2025-07-18">>), Str(<<"United Center">>)), NetShow(Str(<<"2025-06-24">>), Undefined)>>,
     <<NetShow(Str(<<"2025-04-20">>), Str(<<"Moon Palace">>)), NetShow(Str(<<"2025-07-18">>), Undefined)>>,
     <<NetShow(Str(<<"2024-07-31">>), Str(<<"Mohegan Sun Arena">>))>>}

\* response.data[0] of setlists/showdate: venue field and the songs of its sets
Setlist(venue, songs) == [venue |-> venue, songs |-> songs]
\* The songs of a long show, in the order played
LongShowSongs == <<<<"A">>, <<"B">>, <<"C">>, <<"D">>, <<"E">>>>
Setlists ==
    {Setlist(v, s) : v \in {Undefined, Str(<<"United Center">>)},
                     s \in {<<>>, <<<<"A">>>>, <<<<"B">>, <<"A">>>>}}
    \cup {Setlist(Str(<<"United Center">>), SubSeq(LongShowSongs, 1, MaxSongs)),
          Setlist(Str(<<"United Center">>), <<<<"A">>, <<"B">>, <<"A">>>>)}

\* Mutant: a song played twice is listed twice
ExtractSongNamesAll(setlist) == setlist.songs

\* extractSongNames: the songs of the sets, each name once
RECURSIVE ExtractSongNames(_)
ExtractSongNames(setlist) ==
    IF setlist.songs = <<>>
    THEN <<>>
    ELSE LET songs == ExtractSongNames([setlist EXCEPT
                          !.songs = SubSeq(@, 1, Len(@) - 1)])
             song == setlist.songs[Len(setlist.songs)]
         IN  IF \E i \in 1..Len(songs) : songs[i] = song
             THEN songs
             ELSE Append(songs, song)

\* What fetchSongGap resolves to: null, or the record built by
\* calculateGapFromPerformances (previous performance found and gap > 0)
SongGapRecord(songName, gap, showDate) ==
    [t |-> "object", songName |-> Str(songName), gap |-> Num(gap),
     lastPlayed |-> LastPlayedDate, tourDate |-> showDate, tourVenue |-> Null,
     timesPlayed |-> Undefined, historicalLastPlayed |-> Undefined]
\* "A" comes with any gap or none, the other songs with one gap each
SongGapResults(songName, showDate) ==
    IF songName = <<"A">>
    THEN {NullGapInfo} \cup {SongGapRecord(songName, g, showDate) : g \in 1..MaxGap + 1}
    ELSE IF songName = <<"B">>
         THEN {SongGapRecord(songName, MaxGap + 1, showDate)}
         ELSE {SongGapRecord(songName, 1, showDate)}

\* A track of tours/<slug>/tracks as Phish.in lists it
InTrack(title, duration, venueName) ==
    [title |-> title, duration |-> duration, venueName |-> venueName,
     date |-> Str(<<"2025-07-18">>)]

\* response.data of tours/<slug>/tracks
TrackResponses ==
    {<<>>,
     <<InTrack(Str(<<"S","a","n","d">>), Num(1), Str(<<"United Center">>)),
       InTrack(Str(<<"T","u","b","e">>), Num(2), Undefined)>>,
     <<InTrack(Str(<<"S","a","n","d">>), Undefined, Str(<<"United Center">>))>>,
     <<InTrack(Str(<<"S","a","n","d">>), Num(1), Str(<<"United Center">>)),
       InTrack(Str(<<"T","u","b","e">>), Num(2), Undefined),
       InTrack(Str(<<"F","r","e","e">>), Undefined, Str(<<"United Center">>)),
       InTrack(Str(<<"F","e","e">>), Num(2), Str(<<"United Center">>)),
       InTrack(Str(<<"G","i","n">>), Num(1), Undefined)>>}

\* A record of allTourTrackDurations
TrackPerformance(songName, durationSeconds, showDate, venue) ==
    [t |-> "object", songName |-> songName, durationSeconds |-> durationSeconds,
     showDate |-> showDate, venue |-> venue]

\* response.data.map(track => ({ songName, durationSeconds: track.duration || 0, ... }))
ToTrackDurations(tracks) ==
    [i \in 1..Len(tracks) |->
        TrackPerformance(tracks[i].title,
                         OrElse(tracks[i].duration, Num(0)),
                         OrElse(tracks[i].date, Str(<<>>)),
                         OrElse(tracks[i].venueName, Str(<<>>)))]

\* Mutant: an absent venue is passed on as it is
ExtractVenueNoSentinel(apiResponse) == apiResponse.venue

\* extractVenue: the venue field, or 'Unknown Venue'
ExtractVenue(apiResponse) ==
    IF Truthy(apiResponse.venue) /\ apiResponse.venue # SentinelVenue
    THEN apiResponse.venue
    ELSE SentinelVenue

\* extractVenue(setlist) !== 'Unknown Venue' ? extractVenue(setlist) : extractVenue(show)
VenueOf(setlist, show) ==
    IF ExtractVenue(setlist) # SentinelVenue THEN ExtractVenue(setlist) ELSE ExtractVenue(show)

\* getFallbackTrackDurations: the first five songs with placeholder durations
FallbackTrackDurations(setlist, latestShowDate) ==
    [i \in 1..Min(Len(ExtractSongNames(setlist)), 5) |->
        TrackPerformance(Str(ExtractSongNames(setlist)[i]), Num(600 - (i - 1) * 60),
                         latestShowDate, ExtractVenue(setlist))]

\* gapData.map(gap => ({ songName, gap, lastPlayed, tourDate, tourVenue, timesPlayed }))
ToSongGaps(gapData, showdate, venue) ==
    [i \in 1..Len(gapData) |->
        [gapData[i] EXCEPT !.tourDate = showdate, !.tourVenue = venue,
                           !.timesPlayed = OrElse(gapData[i].timesPlayed, Num(100))]]

\* Mutant: the filter has no start date
InTourRangeNoStart(shows, latestShowDate) ==
    SelectSeq(shows, LAMBDA show : DateAtMost(show.showdate, latestShowDate))

\* yearShows.filter(show => show.showdate >= tourStartDate && show.showdate <= latestShowDate)
InTourRange(shows, latestShowDate) ==
    SelectSeq(shows, LAMBDA show : /\ DateAtMost(TourStartDate, show.showdate)
                                   /\ DateAtMost(show.showdate, latestShowDate))

\* Mutant: the filtered shows are left in the order of the response
SortByShowdateNone(shows) == shows

\* sort((a, b) => a.showdate.localeCompare(b.showdate)): stable, ascending
RECURSIVE SortByShowdate(_)
SortByShowdate(shows) ==
    IF shows = <<>>
    THEN <<>>
    ELSE LET init == SortByShowdate(SubSeq(shows, 1, Len(shows) - 1))
             last == shows[Len(shows)]
             p == Cardinality({i \in 1..Len(init) :
                      DateAtMost(init[i].showdate, last.showdate)})
         IN  SubSeq(init, 1, p) \o <<last>> \o SubSeq(init, p + 1, Len(init))

\* calculateTourProgressiveRarestSongs on an array of show objects whose
\* songGaps are arrays of objects, as one function
RECURSIVE FoldSongGaps(_, _, _, _)
FoldSongGaps(map, show, gapInfos, n) ==
    IF n = 0
    THEN map
    ELSE FoldGapInfo(FoldSongGaps(map, show, gapInfos, n - 1), gapInfos[n], show)

RECURSIVE FoldShows(_, _)
FoldShows(shows, n) ==
    IF n = 0
    THEN <<>>
    ELSE FoldSongGaps(FoldShows(shows, n - 1), shows[n],
                      shows[n].songGaps.items, Len(shows[n].songGaps.items))

RarestSongs(shows) ==
    IF shows = <<>> THEN <<>> ELSE TopRarestSongs(FoldShows(shows, Len(shows)))

\* calculateLongestSongs on an array of track objects, as the records it returns
LongestSongRecords(tracks) ==
    IF tracks = <<>>
    THEN <<>>
    ELSE LET refs == LongestSongs(tracks)
         IN  [i \in 1..Len(refs) |-> tracks[refs[i]]]

\* Mutant: the venue of a track is published as it is
FormatLongestSongsForAPIPlain(longestSongs) ==
    [i \in 1..Len(longestSongs) |->
        [songName |-> longestSongs[i].songName,
         durationSeconds |-> longestSongs[i].durationSeconds,
         showDate |-> longestSongs[i].showDate,
         venue |-> longestSongs[i].venue]]

\* formatLongestSongsForAPI
FormatLongestSongsForAPI(longestSongs) ==
    [i \in 1..Len(longestSongs) |->
        [songName |-> longestSongs[i].songName,
         durationSeconds |-> longestSongs[i].durationSeconds,
         showDate |-> longestSongs[i].showDate,
         venue |-> OrElse(longestSongs[i].venue, SentinelVenue)]]

\* Mutant: lastPlayed is published without the historical fallback
FormatRarestSongsForAPINoFallback(rarestSongs) ==
    [i \in 1..Len(rarestSongs) |->
        [songName |-> rarestSongs[i].songName,
         gap |-> rarestSongs[i].gap,
         lastPlayed |-> rarestSongs[i].lastPlayed,
         tourDate |-> rarestSongs[i].tourDate,
         tourVenue |-> OrElse(rarestSongs[i].tourVenue, SentinelVenue)]]

\* formatRarestSongsForAPI
FormatRarestSongsForAPI(rarestSongs) ==
    [i \in 1..Len(rarestSongs) |->
        [songName |-> rarestSongs[i].songName,
         gap |-> rarestSongs[i].gap,
         lastPlayed |-> OrElse(rarestSongs[i].lastPlayed, rarestSongs[i].historicalLastPlayed),
         tourDate |-> rarestSongs[i].tourDate,
         tourVenue |-> OrElse(rarestSongs[i].tourVenue, SentinelVenue)]]

\* Mutant: the fetched tracks are published without the selection of the
\* longest ones
StatisticsUnselected(tourName, showdate, tracks, shows) ==
    [tourName |-> tourName,
     latestShow |-> showdate,
     longestSongs |-> FormatLongestSongsForAPI(tracks),
     rarestSongs |-> FormatRarestSongsForAPI(RarestSongs(shows))]

\* const statistics = { tourName, lastUpdated, latestShow, longestSongs, rarestSongs }
Statistics(tourName, showdate, tracks, shows) ==
    [tourName |-> tourName,
     latestShow |-> showdate,
     longestSongs |-> FormatLongestSongsForAPI(LongestSongRecords(tracks)),
     rarestSongs |-> FormatRarestSongsForAPI(RarestSongs(shows))]

\* Tracks as the Phish.in client hands them over: with a venue name, with an
\* empty one ('' for a show without venue), and without the field
VenueTracks ==
    {TrackPerformance(Str(<<"S","a","n","d">>), Num(d), Str(<<"2025-07-18">>), v) :
        d \in 1..MaxDuration,
        v \in {Str(<<"United Center">>), Str(<<>>), Undefined}}

\* Lines 73-83 on what the engine returned (for the longest songs, references
\* into trackDurations): the records are shaped for the statistics object
FormatForAPI ==
    /\ pc = "returned"
    /\ result' = IF fn = "rarest"
                 THEN FormatRarestSongsForAPI(result)
                 ELSE FormatLongestSongsForAPI(
                          [i \in 1..Len(result) |-> trackDurations.items[result[i]]])
    /\ pc' = "formatted"
    /\ UNCHANGED <<fn, tourShows, trackDurations, arg2, showIndex, obsIndex, tourSongGaps>>
    /\ UNCHANGED outsideEngine

-----------------------------------------------------------------------------
(* calculateCurrentTourStatistics, from one await to the next *)

\* An outbound request: which client call, sent by which method of the
\* calculator, for which show date and song
Request(kind, by, showdate, song) ==
    [kind |-> kind, by |-> by, showdate |-> showdate, song |-> song]
NoRequest == Request("none", "none", Undefined, <<>>)

NoSetlist == Setlist(Undefined, <<>>)

\* The condition of the upstream services: "any" (a request may be answered
\* with any data or fail), "up" (every request is answered, with the reference
\* data), "down" (every request fails)
MayAnswer == upstream # "down"
MayFail == upstream # "up"
Answers(all, reference) == IF upstream = "any" THEN all ELSE {reference}

ReferenceYearShows ==
    <<NetShow(Str(<<"2025-06-24">>), Undefined),
      NetShow(Str(<<"2025-07-18">>), Str(<<"United Center">>))>>
ReferenceSetlist == Setlist(Str(<<"United Center">>), <<<<"A">>>>)
ReferenceTracks ==
    <<InTrack(Str(<<"S","a","n","d">>), Num(1), Str(<<"United Center">>)),
      InTrack(Str(<<"T","u","b","e">>), Num(2), Undefined)>>

\* The locals of a run of calculateCurrentTourStatistics before its first
\* statement; caught: the calculator's own catch blocks that have run;
\* settled: how each request of the loop over the shows came back
AggIdle ==
    [pc |-> "idle", latestShow |-> Undefined, currentTour |-> Undefined,
     allTourTrackDurations |-> <<>>, yearShows |-> <<>>, tourShows |-> <<>>,
     enhancedShows |-> <<>>,
     showIndex |-> 0, setlist |-> NoSetlist, venue |-> Undefined,
     songIndex |-> 0, gaps |-> <<>>, caught |-> {}, settled |-> <<>>,
     latestSetlist |-> NoSetlist]

\* No run of the calculator has been started
AggNotCalled == [AggIdle EXCEPT !.pc = "not called"]

NoStatistics ==
    [tourName |-> Undefined, latestShow |-> Undefined,
     longestSongs |-> <<>>, rarestSongs |-> <<>>]

InitAggregator ==
    /\ agg = AggIdle
    /\ pending = NoRequest
    /\ fetchLog = <<>>
    /\ failures = {}
    /\ statistics = NoStatistics

InitUpstream == upstream = "any"

\* The awaited request has settled and the next one is sent
Await(next) ==
    /\ pending' = next
    /\ fetchLog' = fetchLog
                   \o (IF pending.kind = "none" THEN <<>>
                       ELSE <<[ev |-> "settled", kind |-> pending.kind,
                               by |-> pending.by, showdate |-> pending.showdate]>>)
                   \o (IF next.kind = "none" THEN <<>>
                       ELSE <<[ev |-> "sent", kind |-> next.kind,
                               by |-> next.by, showdate |-> next.showdate]>>)

\* Lines 73-89: the engine is applied and the statistics object returned
Return(a) ==
    /\ agg' = [a EXCEPT !.pc = "returned"]
    /\ statistics' = Statistics(a.currentTour, a.latestShow,
                                a.allTourTrackDurations, a.enhancedShows)
    /\ Await(NoRequest)

\* fetchTourShowsWithGaps: the loop goes to its next show, or the shows are done
NextShow(a) ==
    IF a.showIndex < Len(a.tourShows)
    THEN /\ agg' = [a EXCEPT !.pc = "fetchShowSetlist", !.showIndex = a.showIndex + 1]
         /\ Await(Request("fetchShowSetlist", "fetchTourShowsWithGaps",
                          a.tourShows[a.showIndex + 1].showdate, <<>>))
         /\ UNCHANGED statistics
    ELSE Return(a)

\* Mutant: a show without observations is left out
PushShowNonEmptyOnly(a, showdate, venue, songGaps) ==
    IF songGaps = <<>>
    THEN NextShow(a)
    ELSE NextShow([a EXCEPT !.enhancedShows = Append(a.enhancedShows,
                                                     Show(showdate, venue, Array(songGaps)))])

\* enhancedShows.push({ showDate, venue, songGaps, trackDurations: [] })
PushShow(a, showdate, venue, songGaps) ==
    NextShow([a EXCEPT !.enhancedShows = Append(a.enhancedShows,
                                                Show(showdate, venue, Array(songGaps)))])

\* A request of the loop over the shows came back: answered (with a gap
\* record or null, for a song) or failed
Settled(a, kind, song, ok, gap) ==
    [a EXCEPT !.settled = Append(@, [show |-> a.showIndex, kind |-> kind,
                                     song |-> song, ok |-> ok, gap |-> gap])]

\* Line 56: await this.phishNet.fetchLatestShow()
CalculateCurrentTourStatistics ==
    /\ agg.pc = "idle"
    /\ agg' = [agg EXCEPT !.pc = "fetchLatestShow"]
    /\ Await(Request("fetchLatestShow", "calculateCurrentTourStatistics", Undefined, <<>>))
    /\ UNCHANGED <<failures, statistics>>
    /\ UNCHANGED <<upstream, outsideAggregator>>

\* fetchLatestShow settled: the latest show, or an error (HTTP error, no data)
\* that the inner catch replaces by the historical show and tour
AfterFetchLatestShow ==
    /\ agg.pc = "fetchLatestShow"
    /\ \/ \E showdate \in {Str(<<"2025-07-18">>)} :
             /\ MayAnswer
             /\ agg' = [agg EXCEPT !.pc = "getTourForShow", !.latestShow = showdate]
             /\ Await(Request("getTourForShow", "calculateCurrentTourStatistics",
                              showdate, <<>>))
             /\ UNCHANGED failures
       \/ /\ MayFail
          /\ agg' = [agg EXCEPT !.pc = "fetchTourTrackDurations",
                                !.latestShow = HistoricalShowDate,
                                !.currentTour = HistoricalTourName,
                                !.caught = @ \cup {"calculateCurrentTourStatistics"}]
          /\ Await(Request("fetchTourTrackDurations", "fetchTourDataForCalculation",
                           Undefined, <<>>))
          /\ failures' = failures \cup {"fetchLatestShow"}
    /\ UNCHANGED statistics
    /\ UNCHANGED <<upstream, outsideAggregator>>

\* getTourForShow settled: the tour of the show, or, when the show is not
\* found or the request failed, the year-based name its own catch returns
AfterGetTourForShow ==
    /\ agg.pc = "getTourForShow"
    /\ \/ /\ MayAnswer
          /\ agg' = [agg EXCEPT !.pc = "fetchTourTrackDurations",
                                !.currentTour = Str(<<"Summer Tour 2025">>)]
          /\ UNCHANGED failures
       \/ /\ MayFail
          /\ agg' = [agg EXCEPT !.pc = "fetchTourTrackDurations",
                                !.currentTour = Str(<<YearOf(agg.latestShow), " Tour">>)]
          /\ failures' = failures \cup {"getTourForShow"}
    /\ Await(Request("fetchTourTrackDurations", "fetchTourDataForCalculation",
                     Undefined, <<>>))
    /\ UNCHANGED statistics
    /\ UNCHANGED <<upstream, outsideAggregator>>

\* fetchTourTrackDurations settled: the converted tracks, or [] when there is
\* no data or the request failed (its own catch returns [])
AfterFetchTourTrackDurations ==
    /\ agg.pc = "fetchTourTrackDurations"
    /\ \E ok \in BOOLEAN, tracks \in TrackResponses :
          LET all == IF ok THEN ToTrackDurations(tracks) ELSE <<>>
          IN  /\ IF ok THEN MayAnswer /\ tracks \in Answers(TrackResponses, ReferenceTracks)
                       ELSE MayFail /\ tracks = <<>>
              /\ failures' = IF ok THEN failures
                             ELSE failures \cup {"fetchTourTrackDurations"}
              /\ IF all = <<>>
                 THEN /\ agg' = [agg EXCEPT !.pc = "getFallbackTrackDurations"]
                      /\ Await(Request("fetchShowSetlist", "getFallbackTrackDurations",
                                       agg.latestShow, <<>>))
                 ELSE /\ agg' = [agg EXCEPT !.pc = "getTourPosition",
                                            !.allTourTrackDurations = all]
                      /\ Await(Request("getTourPosition", "fetchAllTourShows",
                                       agg.latestShow, <<>>))
    /\ UNCHANGED statistics
    /\ UNCHANGED <<upstream, outsideAggregator>>

\* getFallbackTrackDurations: the latest show's setlist settled
AfterFallbackSetlist ==
    /\ agg.pc = "getFallbackTrackDurations"
    /\ \/ \E setlist \in Answers(Setlists, ReferenceSetlist) :
             /\ MayAnswer
             /\ agg' = [agg EXCEPT !.pc = "getTourPosition",
                                   !.latestSetlist = setlist,
                                   !.allTourTrackDurations =
                                       FallbackTrackDurations(setlist, agg.latestShow)]
             /\ UNCHANGED failures
       \/ /\ MayFail
          /\ agg' = [agg EXCEPT !.pc = "getTourPosition",
                                !.allTourTrackDurations = <<>>,
                                !.caught = @ \cup {"getFallbackTrackDurations"}]
          /\ failures' = failures \cup {"getFallbackTrackDurations"}
    /\ Await(Request("getTourPosition", "fetchAllTourShows", agg.latestShow, <<>>))
    /\ UNCHANGED statistics
    /\ UNCHANGED <<upstream, outsideAggregator>>

\* fetchAllTourShows: getTourPosition settled (its result is only logged)
AfterGetTourPosition ==
    /\ agg.pc = "getTourPosition"
    /\ agg' = [agg EXCEPT !.pc = "fetchShowsForYear"]
    /\ Await(Request("fetchShowsForYear", "fetchAllTourShows", agg.latestShow, <<>>))
    /\ UNCHANGED <<failures, statistics>>
    /\ UNCHANGED <<upstream, outsideAggregator>>

\* fetchAllTourShows: the year's shows settled; on an error its catch returns
\* the latest show alone.  Then the loop of fetchTourShowsWithGaps starts.
AfterFetchShowsForYear ==
    /\ agg.pc = "fetchShowsForYear"
    /\ \E ok \in BOOLEAN, yearShows \in YearShowLists :
          LET tourShowsNow ==
                  IF ok
                  THEN SortByShowdate(InTourRange(yearShows, agg.latestShow))
                  ELSE <<NetShow(agg.latestShow, Str(<<"Unknown">>))>>
          IN  /\ IF ok THEN MayAnswer /\ yearShows \in Answers(YearShowLists, ReferenceYearShows)
                       ELSE MayFail /\ yearShows = <<>>
              /\ failures' = IF ok THEN failures ELSE failures \cup {"fetchShowsForYear"}
              /\ NextShow([agg EXCEPT !.yearShows = yearShows,
                                      !.tourShows = tourShowsNow, !.showIndex = 0,
                                      !.caught = IF ok THEN @
                                                 ELSE @ \cup {"fetchAllTourShows"}])
    /\ UNCHANGED <<upstream, outsideAggregator>>

\* The setlist of the loop's show settled
AfterFetchShowSetlist ==
    /\ agg.pc = "fetchShowSetlist"
    /\ LET show == agg.tourShows[agg.showIndex]
       IN  \/ \E setlist \in Answers(Setlists, ReferenceSetlist) :
                 LET venue == VenueOf(setlist, show)
                     songNames == ExtractSongNames(setlist)
                 IN  /\ MayAnswer
                     /\ UNCHANGED failures
                     /\ IF songNames = <<>>
                        THEN PushShow(Settled(agg, "fetchShowSetlist", <<>>, TRUE,
                                              NullGapInfo),
                                      show.showdate, venue, <<>>)
                        ELSE /\ agg' = [Settled(agg, "fetchShowSetlist", <<>>, TRUE,
                                                NullGapInfo)
                                           EXCEPT !.pc = "fetchSongGap",
                                                  !.setlist = Setlist(setlist.venue,
                                                                      songNames),
                                                  !.venue = venue,
                                                  !.songIndex = 1, !.gaps = <<>>]
                             /\ Await(Request("fetchSongGap", "fetchTourShowsWithGaps",
                                              show.showdate, songNames[1]))
                             /\ UNCHANGED statistics
           \/ /\ MayFail
              /\ failures' = failures \cup {"fetchShowSetlist"}
              /\ PushShow([Settled(agg, "fetchShowSetlist", <<>>, FALSE, NullGapInfo)
                             EXCEPT !.caught = @ \cup {"fetchTourShowsWithGaps"}],
                          show.showdate, OrElse(show.venue, SentinelVenue), <<>>)
    /\ UNCHANGED <<upstream, outsideAggregator>>

\* fetchSongGaps: the gap request of one song settled (a failed one is skipped)
AfterFetchSongGap ==
    /\ agg.pc = "fetchSongGap"
    /\ LET show == agg.tourShows[agg.showIndex]
           songName == agg.setlist.songs[agg.songIndex]
       IN  \E ok \in BOOLEAN, gap \in SongGapResults(songName, show.showdate) :
              LET gapsNow == IF ok /\ gap.t # "null" THEN Append(agg.gaps, gap) ELSE agg.gaps
                  aggNow == Settled(agg, "fetchSongGap", songName, ok, gap)
              IN  /\ IF ok
                     THEN MayAnswer /\ gap \in Answers(SongGapResults(songName, show.showdate),
                                                        SongGapRecord(songName, 1, show.showdate))
                     ELSE MayFail /\ gap = NullGapInfo
                  /\ failures' = IF ok THEN failures ELSE failures \cup {"fetchSongGap"}
                  /\ IF agg.songIndex < Len(agg.setlist.songs)
                     THEN /\ agg' = [aggNow EXCEPT !.songIndex = agg.songIndex + 1,
                                                   !.gaps = gapsNow]
                          /\ Await(Request("fetchSongGap", "fetchTourShowsWithGaps",
                                           show.showdate,
                                           agg.setlist.songs[agg.songIndex + 1]))
                          /\ UNCHANGED statistics
                     ELSE PushShow(aggNow, show.showdate, agg.venue,
                                   ToSongGaps(gapsNow, show.showdate, agg.venue))
    /\ UNCHANGED <<upstream, outsideAggregator>>

NextAggregator ==
    \/ CalculateCurrentTourStatistics
    \/ AfterFetchLatestShow
    \/ AfterGetTourForShow
    \/ AfterFetchTourTrackDurations
    \/ AfterFallbackSetlist
    \/ AfterGetTourPosition
    \/ AfterFetchShowsForYear
    \/ AfterFetchShowSetlist
    \/ AfterFetchSongGap

-----------------------------------------------------------------------------
(* The scheduled update run (main) *)

MaxRuns == 3

\* current-tour-stats.json and data/state.json
NoFile == [exists |-> FALSE, content |-> NoStatistics]
FileOf(stats) == [exists |-> TRUE, content |-> stats]
NoState == [exists |-> FALSE, lastProcessedShow |-> Null, processingStatus |-> "never-run"]

\* process.env: whether PHISH_NET_API_KEY is set, whether FORCE_UPDATE is 'true'
Env(apiKey, forceUpdate) == [apiKey |-> apiKey, forceUpdate |-> forceUpdate]
Envs == {Env(k, f) : k \in BOOLEAN, f \in BOOLEAN}

\* latestShowDate of shouldUpdate: not asked for, failed, or a show date
NotAsked == Undefined
CheckFailed == Null
LatestShowDates == {Str(<<"2025-06-24">>), Str(<<"2025-07-18">>)}

InitRun ==
    /\ runPc = "start"
    /\ publishedFile = NoFile
    /\ stateFile = NoState
    /\ runs = 1
    /\ env = Env(TRUE, FALSE)
    /\ checkedShowDate = NotAsked

\* Mutant: a latest show equal to the processed one counts as new
ShouldUpdateNotStrict(latestOk, latest) ==
    \/ ~latestOk
    \/ ~Truthy(stateFile.lastProcessedShow)
    \/ DateAtMost(stateFile.lastProcessedShow, latest)

\* shouldUpdate: no processed show yet, a later latest show, or an error
ShouldUpdate(latestOk, latest) ==
    \/ ~latestOk
    \/ ~Truthy(stateFile.lastProcessedShow)
    \/ DateBefore(stateFile.lastProcessedShow, latest)

\* main up to the call of calculateCurrentTourStatistics: the environment
\* check, FORCE_UPDATE and shouldUpdate (which asks Phish.net for the latest
\* show with a client of its own; it is not called on a forced update)
Main ==
    /\ runPc = "start"
    /\ IF ~env.apiKey
       THEN runPc' = "failed" /\ UNCHANGED <<agg, checkedShowDate>>
       ELSE IF env.forceUpdate
            THEN runPc' = "calculating" /\ agg' = AggIdle /\ UNCHANGED checkedShowDate
            ELSE \E latestOk \in BOOLEAN, latest \in LatestShowDates :
                    /\ IF latestOk THEN MayAnswer ELSE MayFail
                    /\ checkedShowDate' = IF latestOk THEN latest ELSE CheckFailed
                    /\ IF ShouldUpdate(latestOk, latest)
                       THEN runPc' = "calculating" /\ agg' = AggIdle
                       ELSE runPc' = "done" /\ UNCHANGED agg
    /\ UNCHANGED <<pending, fetchLog, failures, statistics, upstream>>
    /\ UNCHANGED <<publishedFile, stateFile, runs, env>>
    /\ UNCHANGED <<engineVars, callerVars, clientVars, sideVars>>

\* main after the statistics came back: fs.writeFile of
\* current-tour-stats.json, which may throw
WriteFile ==
    /\ runPc = "calculating" /\ agg.pc = "returned"
    /\ \E ok \in BOOLEAN :
          IF ok
          THEN publishedFile' = FileOf(statistics) /\ runPc' = "written"
          ELSE runPc' = "failed" /\ UNCHANGED publishedFile
    /\ UNCHANGED <<agg, pending, fetchLog, failures, statistics, upstream>>
    /\ UNCHANGED <<stateFile, runs, env, checkedShowDate>>
    /\ UNCHANGED <<engineVars, callerVars, clientVars, sideVars>>

\* updateState: data/state.json is written, which may throw
UpdateState ==
    /\ runPc = "written"
    /\ \E ok \in BOOLEAN :
          IF ok
          THEN /\ stateFile' = [exists |-> TRUE,
                                lastProcessedShow |-> statistics.latestShow,
                                processingStatus |-> "success"]
               /\ runPc' = "done"
          ELSE runPc' = "failed" /\ UNCHANGED stateFile
    /\ UNCHANGED <<agg, pending, fetchLog, failures, statistics, upstream>>
    /\ UNCHANGED <<publishedFile, runs, env, checkedShowDate>>
    /\ UNCHANGED <<engineVars, callerVars, clientVars, sideVars>>

\* Mutant: the error state starts from an empty state
ErrorStateFresh(state) == [NoState EXCEPT !.exists = TRUE, !.processingStatus = "error"]

\* handleUpdateFailure: state = await loadState(); state.processingStatus = 'error'
ErrorState(state) == [state EXCEPT !.exists = TRUE, !.processingStatus = "error"]

\* The catch of main: handleUpdateFailure records the error in the state file
\* (when that write throws, its own catch logs it) and leaves
\* current-tour-stats.json alone; process.exit(1)
HandleUpdateFailure ==
    /\ runPc = "failed"
    /\ \E ok \in BOOLEAN :
          IF ok
          THEN stateFile' = ErrorState(stateFile)
          ELSE UNCHANGED stateFile
    /\ runPc' = "exited"
    /\ UNCHANGED <<agg, pending, fetchLog, failures, statistics, upstream>>
    /\ UNCHANGED <<publishedFile, runs, env, checkedShowDate>>
    /\ UNCHANGED <<engineVars, callerVars, clientVars, sideVars>>

\* The schedule starts the script again, in a new process with its own
\* environment; the upstream services are up or down for this run
NextRun ==
    /\ runPc \in {"done", "exited"}
    /\ runs < MaxRuns
    /\ runs' = runs + 1
    /\ runPc' = "start"
    /\ env' \in Envs
    /\ checkedShowDate' = NotAsked
    /\ agg' = AggNotCalled
    /\ pending' = NoRequest
    /\ fetchLog' = <<>>
    /\ failures' = {}
    /\ statistics' = NoStatistics
    /\ upstream' \in {"up", "down"}
    /\ UNCHANGED <<publishedFile, stateFile>>
    /\ UNCHANGED <<engineVars, callerVars, clientVars, sideVars>>

-----------------------------------------------------------------------------
(* The rate limiter of the API clients (waitForRateLimit / makeRequest) *)

MaxRequests == 3
MaxElapsed == 6000

\* this.minInterval of PhishNetClient and of PhishInClient, in ms
PhishNetMinInterval == 2000
PhishInMinInterval == 1000

\* Date.now() when the client is constructed (any time after the epoch's
\* first minInterval), in ms
StartTime == 5 * PhishNetMinInterval

\* Amounts of time, in ms, that may pass between two turns of the event loop
Elapses == {500, 1000, 2500}

\* A client after its constructor; fetchStarts: when its fetches were started
NewClient(name, minInterval) ==
    [name |-> name, lastCallTime |-> 0, minInterval |-> minInterval,
     pc |-> "idle", wakeAt |-> 0, readNow |-> 0, fetchStarts |-> <<>>]

Clients ==
    {NewClient("PhishNetClient", PhishNetMinInterval),
     NewClient("PhishInClient", PhishInMinInterval)}

InitClient ==
    /\ clock = StartTime
    /\ client \in Clients

\* Mutant: lastCallTime is the time read before the wait
LastCallTimeBeforeWait(readNow, dateNow) == readNow

\* this.lastCallTime = Date.now() (after the wait, if there was one)
LastCallTime(readNow, dateNow) == dateNow

\* Time passes
Tick ==
    /\ \E d \in Elapses :
          /\ clock + d <= StartTime + MaxElapsed
          /\ clock' = clock + d
    /\ UNCHANGED client
    /\ UNCHANGED <<engineVars, callerVars, aggVars, upstream, runVars, sideVars>>

\* makeRequest is called (the previous request has settled): waitForRateLimit
\* up to its setTimeout, or, without a wait, up to fetch(url)
MakeRequest ==
    /\ client.pc = "idle"
    /\ Len(client.fetchStarts) < MaxRequests
    /\ LET now == clock
           timeSinceLastCall == now - client.lastCallTime
       IN  IF timeSinceLastCall < client.minInterval
           THEN client' = [client EXCEPT !.pc = "waiting", !.readNow = now,
                                         !.wakeAt = now + (client.minInterval
                                                           - timeSinceLastCall)]
           ELSE client' = [client EXCEPT !.pc = "fetching", !.readNow = now,
                                         !.lastCallTime = LastCallTime(now, clock),
                                         !.fetchStarts = Append(@, clock)]
    /\ UNCHANGED clock
    /\ UNCHANGED <<engineVars, callerVars, aggVars, upstream, runVars, sideVars>>

\* The timer of waitForRateLimit fires, no earlier than asked: lastCallTime
\* is set and fetch(url) is called in the same turn
TimerFires ==
    /\ client.pc = "waiting"
    /\ clock >= client.wakeAt
    /\ client' = [client EXCEPT !.pc = "fetching",
                                !.lastCallTime = LastCallTime(client.readNow, clock),
                                !.fetchStarts = Append(@, clock)]
    /\ UNCHANGED clock
    /\ UNCHANGED <<engineVars, callerVars, aggVars, upstream, runVars, sideVars>>

\* The fetch settles (a response, or an error that makeRequest throws), and
\* the caller may make its next request
FetchSettles ==
    /\ client.pc = "fetching"
    /\ client' = [client EXCEPT !.pc = "idle"]
    /\ UNCHANGED clock
    /\ UNCHANGED <<engineVars, callerVars, aggVars, upstream, runVars, sideVars>>

NextClient ==
    \/ Tick
    \/ MakeRequest
    \/ TimerFires
    \/ FetchSettles

\* Callers that use one client without awaiting each other's requests
MaxCallers == 2
Callers == 1..MaxCallers

\* One call of makeRequest by a caller: where it stands, the Date.now() it
\* read in waitForRateLimit and the time its timer was set for
NoCall == [pc |-> "idle", readNow |-> 0, wakeAt |-> 0]

\* A client after its constructor, shared by the callers
SharedClient(name, minInterval) ==
    [name |-> name, lastCallTime |-> 0, minInterval |-> minInterval,
     callers |-> [c \in Callers |-> NoCall], fetchStarts |-> <<>>]

SharedClients ==
    {SharedClient("PhishNetClient", PhishNetMinInterval),
     SharedClient("PhishInClient", PhishInMinInterval)}

InitSharedClient ==
    /\ clock = StartTime
    /\ client \in SharedClients

\* Calls of makeRequest made on the client so far that have passed, or are
\* in, waitForRateLimit
CallsMade(cl) ==
    Len(cl.fetchStarts) + Cardinality({c \in Callers : cl.callers[c].pc = "waiting"})

\* A caller calls makeRequest while other calls may be under way:
\* waitForRateLimit up to its setTimeout, or, without a wait, up to fetch(url)
MakeRequestBy(c) ==
    /\ client.callers[c].pc = "idle"
    /\ CallsMade(client) < MaxRequests
    /\ LET now == clock
           timeSinceLastCall == now - client.lastCallTime
       IN  IF timeSinceLastCall < client.minInterval
           THEN client' = [client EXCEPT
                    !.callers[c] = [pc |-> "waiting", readNow |-> now,
                                    wakeAt |-> now + (client.minInterval
                                                      - timeSinceLastCall)]]
           ELSE client' = [client EXCEPT
                    !.callers[c] = [pc |-> "fetching", readNow |-> now,
                                    wakeAt |-> 0],
                    !.lastCallTime = LastCallTime(now, clock),
                    !.fetchStarts = Append(@, clock)]
    /\ UNCHANGED clock
    /\ UNCHANGED <<engineVars, callerVars, aggVars, upstream, runVars, sideVars>>

\* The timer of a caller's waitForRateLimit fires, no earlier than asked:
\* lastCallTime is set and fetch(url) is called in the same turn
TimerFiresFor(c) ==
    /\ client.callers[c].pc = "waiting"
    /\ clock >= client.callers[c].wakeAt
    /\ client' = [client EXCEPT
             !.callers[c].pc = "fetching",
             !.lastCallTime = LastCallTime(client.callers[c].readNow, clock),
             !.fetchStarts = Append(@, clock)]
    /\ UNCHANGED clock
    /\ UNCHANGED <<engineVars, callerVars, aggVars, upstream, runVars, sideVars>>

\* A caller's fetch settles, and the caller may make its next request
FetchSettlesFor(c) ==
    /\ client.callers[c].pc = "fetching"
    /\ client' = [client EXCEPT !.callers[c] = NoCall]
    /\ UNCHANGED clock
    /\ UNCHANGED <<engineVars, callerVars, aggVars, upstream, runVars, sideVars>>

MakeRequestOverlapping == \E c \in Callers : MakeRequestBy(c)
TimerFiresOverlapping == \E c \in Callers : TimerFiresFor(c)
FetchSettlesOverlapping == \E c \in Callers : FetchSettlesFor(c)

NextSharedClient ==
    \/ Tick
    \/ MakeRequestOverlapping
    \/ TimerFiresOverlapping
    \/ FetchSettlesOverlapping

-----------------------------------------------------------------------------
(* calculateRarestSongs of TourStatisticsCalculator (deprecated), on the
   gap observations its fetches returned for each show *)

\* Gap observations without a songName and with a negative gap, next to the
\* well-formed ones
UncheckedGapInfos ==
    ValidGapInfos
    \cup {GapInfo(Undefined, Num(MaxGap), LastPlayedDate),
          GapInfo(Str(<<"B">>), Num(-1), LastPlayedDate)}

\* The object stored for a song by the in-class fold
InClassGapInfo(gap, show) ==
    [songName |-> gap.songName,
     gap |-> gap.gap,
     lastPlayed |-> gap.lastPlayed,
     tourDate |-> show.showDate,
     tourVenue |-> ExtractVenue(show)]

\* gapData.forEach over the first n observations of a show (gaps are
\* numbers): gap.songName.toLowerCase() throws on a missing songName, which
\* ends the forEach
RECURSIVE InClassForEach(_, _, _)
InClassForEach(map, show, n) ==
    IF n = 0
    THEN [map |-> map, thrown |-> FALSE]
    ELSE LET before == InClassForEach(map, show, n - 1)
             gap == show.songGaps.items[n]
         IN  IF before.thrown
             THEN before
             ELSE IF ThrowsOnRead(gap) \/ ThrowsOnRead(gap.songName)
                  THEN [map |-> before.map, thrown |-> TRUE]
                  ELSE IF KeepsHigher(before.map, SongKey(gap), gap)
                       THEN [map |-> MapSet(before.map, SongKey(gap),
                                            InClassGapInfo(gap, show)),
                             thrown |-> FALSE]
                       ELSE before

\* The for loop over the first n shows: a show whose forEach threw is left
\* by the catch (continue) with what it had stored
RECURSIVE InClassShows(_, _)
InClassShows(shows, n) ==
    IF n = 0
    THEN <<>>
    ELSE InClassForEach(InClassShows(shows, n - 1), shows[n],
                        Len(shows[n].songGaps.items)).map

\* Array.from(tourSongGaps.values()).sort((a, b) => b.gap - a.gap).slice(0, 3)
InClassRarestSongs(shows) ==
    SliceTop(SortByGapDesc(MapValues(InClassShows(shows, Len(shows)))))

\* calculateRarestSongs, given the shows with their gap observations
CalculateRarestSongs ==
    /\ fn = "rarest"
    /\ IsArray(tourShows)
    /\ inClass.pc = "not called"
    /\ inClass' = [pc |-> "returned", result |-> InClassRarestSongs(tourShows.items)]
    /\ UNCHANGED gapCall
    /\ UNCHANGED <<engineVars, callerVars, aggVars, upstream, runVars, clientVars>>

-----------------------------------------------------------------------------------------------------------------------------------------------------
(* calculateGapFromPerformances (Phish.net client) *)

MaxDay == 7
MaxPerformances == 3

\* Show dates are counted in days: the YYYY-MM-DD strings compare as their
\* days do, and new Date(a) - new Date(b) is their difference in days
Days == 0..MaxDay

\* A performance of the song as setlists/song lists it
Performance(showdate) == [showdate |-> showdate]

\* The performances of a song, in ascending order of date
\* (order_by=showdate&direction=asc)
PerformanceLists ==
    {p \in SeqUpTo({Performance(d) : d \in Days}, MaxPerformances) :
        \A i \in 1..Len(p) - 1 : p[i].showdate <= p[i + 1].showdate}

\* calculateShowsBetween: Math.floor(diffDays / 3)
CalculateShowsBetween(startDate, endDate) ==
    (IF endDate >= startDate THEN endDate - startDate ELSE startDate - endDate) \div 3

NoPerformance == [showdate |-> -1]

\* The for-of loop: the performance before the current show, and the gap set
\* at the first performance on the current show date (break)
RECURSIVE ScanPerformances(_, _, _)
ScanPerformances(performances, currentShowDate, previousPerformance) ==
    IF performances = <<>>
    THEN [previousPerformance |-> previousPerformance, gap |-> 0]
    ELSE LET performance == Head(performances)
         IN  IF performance.showdate < currentShowDate
             THEN ScanPerformances(Tail(performances), currentShowDate, performance)
             ELSE IF performance.showdate = currentShowDate
                  THEN [previousPerformance |-> previousPerformance,
                        gap |-> IF previousPerformance # NoPerformance
                                THEN CalculateShowsBetween(previousPerformance.showdate,
                                                           currentShowDate)
                                ELSE 0]
                  ELSE ScanPerformances(Tail(performances), currentShowDate,
                                        previousPerformance)

NoGap == [t |-> "null", gap |-> 0, lastPlayed |-> -1, tourDate |-> -1]

\* Mutant: a gap of 0 is returned as a record
CalculateGapFromPerformancesWithZero(performances, currentShowDate) ==
    LET scan == ScanPerformances(performances, currentShowDate, NoPerformance)
    IN  IF scan.previousPerformance # NoPerformance /\ scan.gap >= 0
        THEN [t |-> "object", gap |-> scan.gap,
              lastPlayed |-> scan.previousPerformance.showdate,
              tourDate |-> currentShowDate]
        ELSE NoGap

\* calculateGapFromPerformances: { songName, gap, lastPlayed, tourDate } or null
CalculateGapFromPerformances(performances, currentShowDate) ==
    LET scan == ScanPerformances(performances, currentShowDate, NoPerformance)
    IN  IF scan.previousPerformance # NoPerformance /\ scan.gap > 0
        THEN [t |-> "object", gap |-> scan.gap,
              lastPlayed |-> scan.previousPerformance.showdate,
              tourDate |-> currentShowDate]
        ELSE NoGap

NoGapCall == [pc |-> "not called", performances |-> <<>>, currentShowDate |-> 0,
              result |-> NoGap]

\* fetchSongGap hands the performances and the show date to the function
InitGapCall ==
    gapCall \in {[pc |-> "call", performances |-> p, currentShowDate |-> d,
                   result |-> NoGap] : p \in PerformanceLists, d \in Days}

\* The call returns
GapFromPerformances ==
    /\ gapCall.pc = "call"
    /\ gapCall' = [gapCall EXCEPT
                       !.pc = "returned",
                       !.result = CalculateGapFromPerformances(gapCall.performances,
                                                               gapCall.currentShowDate)]
    /\ UNCHANGED inClass
    /\ UNCHANGED <<engineVars, callerVars, aggVars, upstream, runVars, clientVars>>

\* calculateRarestSongs not called
InClassNotCalled == [pc |-> "not called", result |-> <<>>]

-----
(* Specifications *)

InitCaller ==
    /\ history = <<>>
    /\ calls = 1

\* Neither calculateGapFromPerformances nor the calculator's own fold is called
InitSide ==
    /\ gapCall = NoGapCall
    /\ inClass = InClassNotCalled

\* Outside the engine nothing happens: no run of the calculator or of the
\* update script is looked at, and the client is not used
InitOutside ==
    /\ InitCaller
    /\ InitAggregator
    /\ InitUpstream
    /\ InitRun
    /\ clock = StartTime
    /\ client = NewClient("PhishNetClient", PhishNetMinInterval)
    /\ InitSide

\* The state at the call, for arguments drawn from the given sets
InitWith(fns, showsSet, tracksSet, arg2Set) ==
    /\ fn \in fns
    /\ IF fn = "rarest"
       THEN tourShows \in showsSet /\ trackDurations = NoInput
       ELSE tourShows = NoInput /\ trackDurations \in tracksSet
    /\ arg2 \in arg2Set
    /\ pc = "call"
    /\ showIndex = 0
    /\ obsIndex = 0
    /\ tourSongGaps = <<>>
    /\ result = <<>>
    /\ InitOutside

\* Both selectors on well-formed and malformed input
Init ==
    InitWith({"rarest", "longest"},
             TourShowsOver(ShowsOver(ShowHeads, ValidGapInfos \cup InvalidGapInfos
                                                  \cup {NullGapInfo}, MaxObs)
                           \cup MalformedShows, MaxShows)
             \cup NotArrays,
             TrackDurationsOver(ValidTracks \cup InvalidTracks, MaxTracks) \cup NotArrays,
             {Undefined})

Next ==
    \/ RarestCall
    \/ RarestShow
    \/ RarestObservation
    \/ RarestReturn
    \/ LongestCall

Spec == Init /\ [][Next]_vars

\* The track selector alone
NextLongest == LongestCall

InitLongest ==
    InitWith({"longest"}, {NoInput},
             TrackDurationsOver(ValidTracks \cup InvalidTracks, MaxTracks) \cup NotArrays,
             {Undefined})

SpecLongest == InitLongest /\ [][NextLongest]_vars

\* The reducer alone
NextRarest ==
    \/ RarestCall
    \/ RarestShow
    \/ RarestObservation
    \/ RarestReturn

\* The reducer on more songs than it returns, and on the reference scenario
InitTop ==
    InitWith({"rarest"},
             TourShowsOver(ShowsOver(OneShowHead, TopGapInfos, MaxObs), MaxShows + 1)
             \cup {ReferenceShows},
             {NoInput}, {Undefined})

SpecTop == InitTop /\ [][NextRarest]_vars

\* The reducer on gap-0 and malformed observations of four songs
InitFold ==
    InitWith({"rarest"},
             TourShowsOver(ShowsOver(OneShowHead, ZeroGapInfos \cup InvalidGapInfos, MaxObs),
                           MaxShows),
             {NoInput}, {Undefined})

SpecFold == InitFold /\ [][NextRarest]_vars

\* Both rarest-songs folds on the same shows
InitInClass ==
    InitWith({"rarest"},
             TourShowsOver(ShowsOver(ShowHeads, UncheckedGapInfos, MaxObs), MaxShows),
             {NoInput}, {Undefined})

NextInClass ==
    \/ NextRarest
    \/ CalculateRarestSongs

SpecInClass == InitInClass /\ [][NextInClass]_vars

\* Second arguments a caller may pass: none, the tour name, a count k
SecondArguments ==
    {Undefined, Str(<<"Summer Tour 2025">>)} \cup {Num(k) : k \in 1..TopN + 1}

\* Both selectors called with a second argument
InitArg2 ==
    InitWith({"rarest", "longest"},
             TourShowsOver(ShowsOver(OneShowHead,
                                     TopGapInfos \cup {GapInfo(Str(<<"B">>), Num(-1), Undefined)},
                                     MaxObs), MaxShows),
             TrackDurationsOver(ValidTracks \cup {Track(Null, Num(MaxDuration)), NullTrack},
                                MaxTracks),
             SecondArguments)

SpecArg2 == InitArg2 /\ [][Next]_vars

InitRepeat == InitWith({"rarest", "longest"}, RepeatShows, RepeatTracks, {Undefined})

NextRepeat ==
    \/ RarestCall
    \/ RarestShow
    \/ RarestObservation
    \/ RarestReturn
    \/ LongestCall
    \/ Invoke

SpecRepeat == InitRepeat /\ [][NextRepeat]_vars

\* Both selectors followed by the shaping of their records for publication
InitPublish ==
    InitWith({"rarest", "longest"},
             TourShowsOver(ShowsOver(VenueHeads, DatedGapInfos, MaxObs), MaxShows),
             TrackDurationsOver(VenueTracks, MaxTracks),
             {Undefined})

NextPublish ==
    \/ RarestCall
    \/ RarestShow
    \/ RarestObservation
    \/ RarestReturn
    \/ LongestCall
    \/ FormatForAPI

SpecPublish == InitPublish /\ [][NextPublish]_vars

\* The engine is not called from outside the calculator
InitEngineIdle ==
    /\ fn = "rarest"
    /\ tourShows = NoInput
    /\ trackDurations = NoInput
    /\ arg2 = Undefined
    /\ pc = "returned"
    /\ showIndex = 0
    /\ obsIndex = 0
    /\ tourSongGaps = <<>>
    /\ result = <<>>

\* calculateGapFromPerformances on the performances of a song
InitGap ==
    /\ InitEngineIdle
    /\ InitCaller
    /\ InitAggregator
    /\ InitUpstream
    /\ InitRun
    /\ clock = StartTime
    /\ client = NewClient("PhishNetClient", PhishNetMinInterval)
    /\ InitGapCall
    /\ inClass = InClassNotCalled

NextGap == GapFromPerformances

SpecGap == InitGap /\ [][NextGap]_vars

\* One run of calculateCurrentTourStatistics against upstream services that
\* answer or fail request by request
InitAgg ==
    /\ InitEngineIdle
    /\ InitCaller
    /\ InitAggregator
    /\ InitUpstream
    /\ InitRun
    /\ clock = StartTime
    /\ client = NewClient("PhishNetClient", PhishNetMinInterval)
    /\ InitSide

SpecAgg == InitAgg /\ [][NextAggregator]_vars

\* Update runs, each with the upstream services up or down
InitUpdate ==
    /\ InitEngineIdle
    /\ InitCaller
    /\ agg = AggNotCalled
    /\ pending = NoRequest
    /\ fetchLog = <<>>
    /\ failures = {}
    /\ statistics = NoStatistics
    /\ upstream \in {"up", "down"}
    /\ runPc = "start"
    /\ publishedFile = NoFile
    /\ stateFile = NoState
    /\ runs = 1
    /\ env \in Envs
    /\ checkedShowDate = NotAsked
    /\ clock = StartTime
    /\ client = NewClient("PhishNetClient", PhishNetMinInterval)
    /\ InitSide

NextUpdate ==
    \/ Main
    \/ NextAggregator
    \/ WriteFile
    \/ UpdateState
    \/ HandleUpdateFailure
    \/ NextRun

SpecUpdate == InitUpdate /\ [][NextUpdate]_vars

\* Requests made one after another on one client
InitRateLimit ==
    /\ InitEngineIdle
    /\ InitCaller
    /\ InitAggregator
    /\ InitUpstream
    /\ InitRun
    /\ InitClient
    /\ InitSide

SpecRateLimit == InitRateLimit /\ [][NextClient]_vars

\* Requests made on one client by callers that do not await each other
InitOverlap ==
    /\ InitEngineIdle
    /\ InitCaller
    /\ InitAggregator
    /\ InitUpstream
    /\ InitRun
    /\ InitSharedClient
    /\ InitSide

SpecOverlap == InitOverlap /\ [][NextSharedClient]_vars

-----------------------------------------------------------------------------
(* The input as the claims read it *)

Shows == tourShows.items

\* Positions <<show, observation>> of the input, in input order
Positions ==
    {<<i, j>> : i \in 1..Len(Shows), j \in 1..MaxObs + 1} \cap
    {p \in (1..Len(Shows)) \X (1..MaxObs + 1) : p[2] <= Len(Shows[p[1]].songGaps.items)}

ObsAt(p) == Shows[p[1]].songGaps.items[p[2]]

\* A valid observation: an object with a non-empty song name and a gap >= 0
ValidObservation(o) ==
    /\ o.t = "object"
    /\ o.songName.t = "string" /\ Len(o.songName.s) > 0
    /\ o.gap.t = "number" /\ o.gap.n >= 0

ValidPositions == {p \in Positions : ValidObservation(ObsAt(p))}

\* A song's identity: its name in lower case
KeyOfName(name) == ToLowerCase(name.s)
KeyAt(p) == KeyOfName(ObsAt(p).songName)
SongKeys == {KeyAt(p) : p \in ValidPositions}
PositionsOf(k) == {p \in ValidPositions : KeyAt(p) = k}

Before(p, q) == p[1] < q[1] \/ (p[1] = q[1] /\ p[2] < q[2])
First(ps) == CHOOSE p \in ps : \A q \in ps : ~Before(q, p)

MaxGapOf(k) ==
    LET gaps == {ObsAt(p).gap.n : p \in PositionsOf(k)}
    IN  CHOOSE g \in gaps : \A h \in gaps : h <= g

\* The first position, in input order, at which the song's highest gap occurs
FirstMaxPos(k) == First({p \in PositionsOf(k) : ObsAt(p).gap.n = MaxGapOf(k)})
\* The position of the song's first valid observation
FirstPos(k) == First(PositionsOf(k))

\* The venue a show gives its songs: its venue, "Unknown Venue" if it has none
VenueOfShow(show) ==
    IF show.venue.t = "string" /\ Len(show.venue.s) > 0
    THEN show.venue
    ELSE Str(<<"Unknown Venue">>)

RarestReturned == fn = "rarest" /\ pc = "returned" /\ IsArray(tourShows)
LongestReturned == fn = "longest" /\ pc = "returned" /\ IsArray(trackDurations)

RetainedOf(k) == {tourSongGaps[i].value : i \in {j \in 1..Len(tourSongGaps) : tourSongGaps[j].key = k}}
ResultRecords == {result[i] : i \in 1..Len(result)}

\* A valid track entry: an object with a non-empty song name and a positive
\* numeric durationSeconds
ValidTrackEntry(tr) ==
    /\ tr.t = "object"
    /\ tr.songName.t = "string" /\ Len(tr.songName.s) > 0
    /\ tr.durationSeconds.t = "number" /\ tr.durationSeconds.n > 0

Tracks == trackDurations.items
ValidTrackRefs == {i \in 1..Len(Tracks) : ValidTrackEntry(Tracks[i])}
DurationAt(i) == Tracks[i].durationSeconds.n

\* The positions of the valid entries, in input order
RECURSIVE ValidRefsUpTo(_)
ValidRefsUpTo(n) ==
    IF n = 0 THEN <<>>
    ELSE IF n \in ValidTrackRefs THEN Append(ValidRefsUpTo(n - 1), n)
         ELSE ValidRefsUpTo(n - 1)

\* What the selector returns for the list with its invalid entries taken out,
\* as positions of the original list
ResultWithoutInvalid ==
    LET refs == ValidRefsUpTo(Len(Tracks))
        only == [i \in 1..Len(refs) |-> Tracks[refs[i]]]
        res == IF only = <<>> THEN <<>> ELSE LongestSongs(only)
    IN  [i \in 1..Len(res) |-> refs[res[i]]]

ResultKeys == {KeyOfName(result[i].songName) : i \in 1..Len(result)}

\* The observations the fold has been through in the current state
Processed(p) ==
    CASE pc = "obs" -> Before(p, <<showIndex, obsIndex>>)
      [] pc = "show" -> p[1] < showIndex
      [] pc = "returned" -> TRUE
      [] OTHER -> FALSE

ProcessedValid == {p \in ValidPositions : Processed(p)}

\* What the map holds if exactly the valid observations processed so far were
\* folded: per song, the first observation of its highest gap so far
FoldOfValid ==
    {LET ps == {q \in ProcessedValid : KeyAt(q) = KeyAt(p)}
         top == First({q \in ps : \A o \in ps : ObsAt(o).gap.n <= ObsAt(q).gap.n})
     IN  [key |-> KeyAt(p), songName |-> ObsAt(top).songName, gap |-> ObsAt(top).gap,
          tourDate |-> Shows[top[1]].showDate, tourVenue |-> VenueOfShow(Shows[top[1]])]
     : p \in ProcessedValid}

MapEntries ==
    {[key |-> tourSongGaps[i].key, songName |-> tourSongGaps[i].value.songName,
      gap |-> tourSongGaps[i].value.gap, tourDate |-> tourSongGaps[i].value.tourDate,
      tourVenue |-> tourSongGaps[i].value.tourVenue] : i \in 1..Len(tourSongGaps)}

\* An observation object is folded iff it is valid; an invalid one raises
\* nothing and leaves the map as it was, and the observations after it are
\* processed.
FoldedIffValid ==
    (fn = "rarest" /\ IsArray(tourShows)) =>
        /\ pc # "thrown"
        /\ pc \in {"show", "obs", "returned"} =>
              /\ MapEntries = FoldOfValid
              /\ Len(tourSongGaps) = Cardinality(FoldOfValid)

\* Songs that come before k in the output order: a larger gap, or the same gap
\* and an earlier first valid observation
RankedBefore(k) ==
    {h \in SongKeys \ {k} :
        \/ MaxGapOf(h) > MaxGapOf(k)
        \/ MaxGapOf(h) = MaxGapOf(k) /\ Before(FirstPos(h), FirstPos(k))}

\* The number of valid entries (longest) or of distinct valid songs (rarest)
\* in the input of a call that returned
ValidCount ==
    IF fn = "longest" THEN Cardinality(ValidTrackRefs) ELSE Cardinality(SongKeys)


-----------------------------------------------------------------------------
(* Claims *)

\* C1: for every song (lower-cased name) with a valid observation, the reducer
\* retains exactly one entry, whose gap is the maximum of the song's valid gaps
\* and whose tourDate/tourVenue are those of the first show in input order at
\* which that maximum occurs; a later equal gap does not replace it.
C1_RetainsFirstMaxGap ==
    RarestReturned =>
        /\ \A k \in SongKeys :
              /\ Cardinality(RetainedOf(k)) = 1
              /\ \A e \in RetainedOf(k) :
                    /\ e.gap = Num(MaxGapOf(k))
                    /\ e.tourDate = Shows[FirstMaxPos(k)[1]].showDate
                    /\ e.tourVenue = VenueOfShow(Shows[FirstMaxPos(k)[1]])
                    /\ e.lastPlayed = OrElse(ObsAt(FirstMaxPos(k)).lastPlayed, Null)
        /\ \A r \in ResultRecords :
              /\ KeyOfName(r.songName) \in SongKeys
              /\ r \in RetainedOf(KeyOfName(r.songName))

\* C1 witness: a song reaches its highest gap at two shows of different dates,
\* the first of them the calendar-later one, after a lower gap, and is returned
\* with the first show's date.
C1_Witness ==
    /\ RarestReturned
    /\ \E p, q \in ValidPositions :
          /\ KeyAt(p) = KeyAt(q) /\ p[1] < q[1]
          /\ ObsAt(p).gap.n = MaxGapOf(KeyAt(p)) /\ ObsAt(q).gap.n = MaxGapOf(KeyAt(p))
          /\ Shows[p[1]].showDate = Str(<<"2025-07-18">>)
          /\ Shows[q[1]].showDate = Str(<<"2025-06-24">>)
          /\ \E o \in PositionsOf(KeyAt(p)) : Before(o, p) /\ ObsAt(o).gap.n < ObsAt(p).gap.n
          /\ \E r \in ResultRecords :
                KeyOfName(r.songName) = KeyAt(p) /\ r.tourDate = Str(<<"2025-07-18">>)

\* C2: every returned record has the showDate of the show container whose
\* observation was retained as tourDate and that show's venue as tourVenue,
\* and never the tourDate/tourVenue embedded in the observation, which are
\* present and differ.
C2_AttributionFromShow ==
    RarestReturned =>
        \A r \in ResultRecords :
            LET p == FirstMaxPos(KeyOfName(r.songName))
            IN  /\ r.tourDate = Shows[p[1]].showDate
                /\ r.tourVenue = VenueOfShow(Shows[p[1]])
                /\ Truthy(ObsAt(p).tourDate) /\ r.tourDate # ObsAt(p).tourDate
                /\ Truthy(ObsAt(p).tourVenue) /\ r.tourVenue # ObsAt(p).tourVenue

\* C2 witness: a returned record carries its show's venue while the retained
\* observation embeds another venue and date.
C2_Witness ==
    /\ RarestReturned
    /\ \E r \in ResultRecords :
          /\ r.tourVenue = Str(<<"United Center">>)
          /\ ObsAt(FirstMaxPos(KeyOfName(r.songName))).tourVenue = Str(<<"embedded-venue">>)
          /\ ObsAt(FirstMaxPos(KeyOfName(r.songName))).tourDate = Str(<<"embedded-date">>)

\* C3: the reducer returns the retained records of the min(3, number of songs)
\* songs with the largest retained gaps, in non-increasing gap order; every song
\* left out has a retained gap <= the smallest gap returned; the reference
\* shows (gaps 323, 322, 522) give On Your Way Down, Paul and Silas, Devotion
\* To A Dream, each with its own show's date.
C3_TopThreeRarestSorted ==
    RarestReturned =>
        /\ Len(result) = IF Cardinality(SongKeys) < TopN
                         THEN Cardinality(SongKeys) ELSE TopN
        /\ Cardinality(ResultKeys) = Len(result)
        /\ \A r \in ResultRecords :
              /\ KeyOfName(r.songName) \in SongKeys
              /\ r.gap = Num(MaxGapOf(KeyOfName(r.songName)))
              /\ r.tourDate = Shows[FirstMaxPos(KeyOfName(r.songName))[1]].showDate
        /\ \A i \in 1..Len(result) - 1 : result[i].gap.n >= result[i + 1].gap.n
        /\ \A k \in SongKeys \ ResultKeys : MaxGapOf(k) <= result[Len(result)].gap.n
        /\ tourShows = ReferenceShows =>
              /\ Len(result) = 3
              /\ result[1].songName = Str(<<"On Your Way Down">>)
              /\ result[1].gap = Num(522) /\ result[1].tourDate = Str(<<"2025-07-18">>)
              /\ result[2].songName = Str(<<"Paul and Silas">>)
              /\ result[2].gap = Num(323) /\ result[2].tourDate = Str(<<"2025-06-24">>)
              /\ result[3].songName = Str(<<"Devotion To A Dream">>)
              /\ result[3].gap = Num(322) /\ result[3].tourDate = Str(<<"2025-07-11">>)

\* C3 witness: of four songs, the one observed first has the smallest gap and
\* is the one left out.
C3_Witness ==
    /\ RarestReturned
    /\ Cardinality(SongKeys) = TopN + 1
    /\ Len(result) = TopN
    /\ <<1, 1>> \in ValidPositions
    /\ KeyAt(<<1, 1>>) \notin ResultKeys
    /\ MaxGapOf(KeyAt(<<1, 1>>)) < result[TopN].gap.n

\* C4: songs with equal retained gaps are returned, and at the top-3 cut
\* selected, in the order of their first valid observations in the input, also
\* when a song reached the tied gap by a later update of its entry.
C4_TiesByFirstObservation ==
    RarestReturned =>
        /\ \A i, j \in 1..Len(result) :
              (i < j /\ result[i].gap = result[j].gap) =>
                  Before(FirstPos(KeyOfName(result[i].songName)),
                         FirstPos(KeyOfName(result[j].songName)))
        /\ \A k \in SongKeys \ ResultKeys :
              MaxGapOf(k) = result[Len(result)].gap.n =>
                  Before(FirstPos(KeyOfName(result[Len(result)].songName)), FirstPos(k))
        /\ \A i, j \in 1..Len(tourSongGaps) :
              i < j => Before(FirstPos(tourSongGaps[i].key), FirstPos(tourSongGaps[j].key))

\* C4 witness: four songs tie; the song observed first reached the tied gap by
\* a later update and is returned first, and the song observed last is cut.
C4_Witness ==
    /\ RarestReturned
    /\ Cardinality(SongKeys) = TopN + 1
    /\ \A k \in SongKeys : MaxGapOf(k) = MaxGap
    /\ <<1, 1>> \in ValidPositions
    /\ ObsAt(<<1, 1>>).gap.n < MaxGap
    /\ Len(result) = TopN
    /\ KeyOfName(result[1].songName) = KeyAt(<<1, 1>>)
    /\ \E k \in SongKeys \ ResultKeys : Before(FirstMaxPos(KeyAt(<<1, 1>>)), FirstPos(k))

\* C5: no entry with a missing, non-numeric, zero or negative durationSeconds
\* or a missing or empty songName is returned by calculateLongestSongs; such
\* entries raise no error, and the result is the one the valid entries alone
\* give.
C5_InvalidTracksDropped ==
    /\ (fn = "longest" /\ IsArray(trackDurations)) => pc # "thrown"
    /\ LongestReturned =>
          /\ \A i \in 1..Len(result) : result[i] \in ValidTrackRefs
          /\ result = ResultWithoutInvalid

\* C5 witness: entries of every invalid kind, one of them with the highest
\* duration, stand between valid entries, and only valid entries are returned.
C5_Witness ==
    /\ LongestReturned
    /\ Len(result) >= 1
    /\ \E i, j, k \in 1..Len(Tracks) :
          /\ i < j /\ j < k
          /\ i \in ValidTrackRefs /\ k \in ValidTrackRefs
          /\ ~Truthy(Tracks[j].songName) /\ Tracks[j].durationSeconds = Num(MaxDuration)
          /\ DurationAt(i) < MaxDuration /\ DurationAt(k) < MaxDuration
    /\ \E j \in 1..Len(Tracks) : Tracks[j].durationSeconds = Num(0)

\* C6: calculateLongestSongs returns min(3, number of valid entries) valid
\* entries, by durationSeconds descending, equal durations in input order; a
\* valid entry left out is no longer than the last one returned, and follows it
\* in the input if it is as long.
C6_TopThreeLongestStable ==
    LongestReturned =>
        /\ Len(result) = IF Cardinality(ValidTrackRefs) < TopN
                         THEN Cardinality(ValidTrackRefs) ELSE TopN
        /\ \A i \in 1..Len(result) : result[i] \in ValidTrackRefs
        /\ \A i, j \in 1..Len(result) :
              i < j => \/ DurationAt(result[i]) > DurationAt(result[j])
                       \/ /\ DurationAt(result[i]) = DurationAt(result[j])
                          /\ result[i] < result[j]
        /\ \A v \in ValidTrackRefs :
              (\A i \in 1..Len(result) : result[i] # v) =>
                  \/ DurationAt(v) < DurationAt(result[Len(result)])
                  \/ /\ DurationAt(v) = DurationAt(result[Len(result)])
                     /\ result[Len(result)] < v

\* C6 witness: four valid entries, the shorter one first, two of equal duration
\* at the cut, of which the earlier is returned.
C6_Witness ==
    /\ LongestReturned
    /\ Cardinality(ValidTrackRefs) = TopN + 1
    /\ Len(result) = TopN
    /\ DurationAt(1) < DurationAt(result[1])
    /\ \E v \in ValidTrackRefs :
          /\ \A i \in 1..Len(result) : result[i] # v
          /\ DurationAt(v) = DurationAt(result[TopN])
    /\ DurationAt(result[1]) > DurationAt(result[TopN])

C8_NeverRaises == pc # "thrown"

\* C9 as stated: an observation is folded iff its songName is non-empty and
\* its gap is a number >= 0; an invalid one is skipped without error and
\* without effect on the map or on the rest of the show; a song whose gap is 0
\* is returned whenever fewer than 3 songs have a larger gap.
C9_GapZeroWheneverFewLarger ==
    /\ FoldedIffValid
    /\ RarestReturned =>
          \A k \in SongKeys :
              (/\ MaxGapOf(k) = 0
               /\ Cardinality({h \in SongKeys : MaxGapOf(h) > 0}) < TopN)
              => k \in ResultKeys

\* C9 amended: as stated, but a song whose gap is 0 is returned exactly when
\* fewer than 3 other songs have a larger gap or the same gap and an earlier
\* first valid observation.
C9_FoldsValidObservations ==
    /\ FoldedIffValid
    /\ RarestReturned =>
          \A k \in SongKeys :
              MaxGapOf(k) = 0 =>
                  (k \in ResultKeys <=> Cardinality(RankedBefore(k)) < TopN)

\* C9 witness: in one show an invalid observation precedes a valid one of gap
\* 0, which is folded and returned after a song of a larger gap.
C9_Witness ==
    /\ RarestReturned
    /\ \E p \in Positions \ ValidPositions, q \in ValidPositions :
          /\ p[1] = q[1] /\ p[2] < q[2]
          /\ ObsAt(q).gap.n = 0 /\ MaxGapOf(KeyAt(q)) = 0
          /\ KeyAt(q) \in ResultKeys
    /\ \E k \in ResultKeys : MaxGapOf(k) > 0

\* C10: no two returned records have song names that are equal ignoring case,
\* and each record shows the name exactly as the retained observation spelled
\* it (lower-casing is applied to the key only).
C10_CaseFoldedIdentity ==
    RarestReturned =>
        /\ \A i, j \in 1..Len(result) :
              i # j => KeyOfName(result[i].songName) # KeyOfName(result[j].songName)
        /\ \A r \in ResultRecords :
              r.songName = ObsAt(FirstMaxPos(KeyOfName(r.songName))).songName
        /\ \A i \in 1..Len(tourSongGaps) :
              tourSongGaps[i].key = KeyOfName(tourSongGaps[i].value.songName)

\* C10 witness: a song observed as "A" and then, with a higher gap, as "a" is
\* returned once, spelled "a".
C10_Witness ==
    /\ RarestReturned
    /\ \E p, q \in ValidPositions :
          /\ Before(p, q)
          /\ ObsAt(p).songName = Str(<<"A">>) /\ ObsAt(q).songName = Str(<<"a">>)
          /\ ObsAt(p).gap.n < ObsAt(q).gap.n
    /\ \E r \in ResultRecords : r.songName = Str(<<"a">>)
    /\ \A r \in ResultRecords : r.songName # Str(<<"A">>)

\* C11: both selectors are deterministic: an invocation that returns gives the
\* same records in the same order as every earlier invocation of the same
\* selector on the same input, whatever was invoked in between.
C11_SameInputSameOutput ==
    pc = "returned" =>
        \A i \in 1..Len(history) :
            (/\ history[i].pc = "returned"
             /\ history[i].fn = fn
             /\ history[i].tourShows = tourShows
             /\ history[i].trackDurations = trackDurations)
            => history[i].result = result

\* The reducer returned a non-empty result for an input it was given two
\* invocations ago, with a different non-empty reduction in between
C11_Witness ==
    /\ pc = "returned" /\ fn = "rarest" /\ Len(history) = 2
    /\ history[1].fn = "rarest" /\ history[1].tourShows = tourShows
    /\ history[2].fn = "rarest" /\ history[2].tourShows # tourShows
    /\ history[2].result # <<>>
    /\ result # <<>>

\* The Map holds what the fold of this invocation's input gives, nothing else
MapOfThisInvocation ==
    (fn = "rarest" /\ pc \in {"show", "obs", "returned"} /\ IsArray(tourShows)) =>
        /\ MapEntries = FoldOfValid
        /\ Len(tourSongGaps) = Cardinality(FoldOfValid)

\* C12: a step of an invocation leaves the input collections as they were
\* (same elements, same order, same field values), and the accumulation map
\* holds only what this invocation folded: nothing an earlier invocation wrote
\* is read.
C12_InputUnchangedMapLocal ==
    [][/\ calls' = calls => (tourShows' = tourShows /\ trackDurations' = trackDurations)
       /\ MapOfThisInvocation']_vars

\* A second invocation returned after a first one on another input, each
\* with a non-empty result, the inputs still as they were passed
C12_Witness ==
    /\ pc = "returned" /\ calls = 2
    /\ result # <<>> /\ history[1].result # <<>>
    /\ \/ fn = "rarest" /\ history[1].fn = "rarest" /\ history[1].tourShows # tourShows
          /\ tourSongGaps # <<>>
       \/ fn = "longest" /\ history[1].fn = "longest"
          /\ history[1].trackDurations # trackDurations

\* ---------------------------------------------------------------------
\* Claims about the aggregator, the update run and the clients
\* ---------------------------------------------------------------------

\* The kinds of request that failed during the calculation
Failed(kind) == kind \in failures

\* The calculation has returned its statistics to the caller
Returned == agg.pc = "returned"

\* C13: when the tour-wide fetch of shows fails, the published rarest-songs
\* list is empty.  The calculator's catch hands back the latest show alone,
\* whose setlist and gaps are then fetched, so the list is not empty.
C13_RarestEmptyWhenShowsFetchFails ==
    (Returned /\ Failed("fetchShowsForYear")) => statistics.rarestSongs = <<>>

\* C14: when the tour durations, the tour shows and the fallback fetch all
\* fail, the calculation raises an error and returns no statistics.
C14_RaisesWhenFallbackFails ==
    (/\ Failed("fetchTourTrackDurations")
     /\ Failed("fetchShowsForYear")
     /\ Failed("getFallbackTrackDurations")) => ~Returned

\* C15: over any sequence of update runs, current-tour-stats.json changes
\* only to statistics computed without a failed fetch; a run in which a
\* fetch failed leaves the file of the previous run as it was.
C15_FailedRunKeepsFile ==
    [][publishedFile' # publishedFile => failures = {}]_vars

\* C16: a failure of getTourForShow and a failure of fetchTourTrackDurations
\* reach the calculator as errors, that is, they land in the catch block of
\* the function that awaited them.
C16_FailuresReachAggregator ==
    /\ (Failed("getTourForShow") /\ agg.pc # "getTourForShow")
           => "calculateCurrentTourStatistics" \in agg.caught
    /\ (Failed("fetchTourTrackDurations") /\ agg.pc # "fetchTourTrackDurations")
           => "fetchTourDataForCalculation" \in agg.caught

\* The songs with a gap record among the shows handed to the engine
SongsSeen ==
    UNION {{agg.enhancedShows[i].songGaps.items[j].songName :
               j \in 1..Len(agg.enhancedShows[i].songGaps.items)} :
           i \in 1..Len(agg.enhancedShows)}

\* C17: every returned statistics object, on the normal path and on every
\* fallback path, has at most three longestSongs and at most three
\* rarestSongs; longestSongs is non-increasing in durationSeconds, each a
\* number above 0; rarestSongs is non-increasing in gap, each a number of
\* at least 0.
C17_ListsBoundedSorted ==
    Returned =>
        LET longest == statistics.longestSongs
            rarest == statistics.rarestSongs
        IN  /\ Len(longest) \in 0..3
            /\ Len(rarest) \in 0..3
            /\ \A i \in 1..Len(longest) :
                   /\ longest[i].durationSeconds.t = "number"
                   /\ longest[i].durationSeconds.n > 0
                   /\ \A j \in i + 1..Len(longest) :
                          longest[i].durationSeconds.n >= longest[j].durationSeconds.n
            /\ \A i \in 1..Len(rarest) :
                   /\ rarest[i].gap.t = "number"
                   /\ rarest[i].gap.n >= 0
                   /\ \A j \in i + 1..Len(rarest) : rarest[i].gap.n >= rarest[j].gap.n

\* A fallback path on which both lists are cut: the track fetch failed, the
\* latest show's setlist gave more than three placeholder tracks, and more
\* than three songs of the tour came with a gap, not all the same
C17_Witness ==
    /\ Returned
    /\ Failed("fetchTourTrackDurations")
    /\ Len(agg.allTourTrackDurations) > 3
    /\ Cardinality(SongsSeen) > 3
    /\ Len(statistics.longestSongs) = 3
    /\ Len(statistics.rarestSongs) = 3
    /\ statistics.longestSongs[1].durationSeconds.n > statistics.longestSongs[3].durationSeconds.n
    /\ statistics.rarestSongs[1].gap.n > statistics.rarestSongs[3].gap.n

\* The normal path with more than three valid tracks, one of them without
\* a duration
C17_WitnessNormalPath ==
    /\ Returned
    /\ failures = {}
    /\ Len(agg.allTourTrackDurations) > 3
    /\ \E i \in 1..Len(agg.allTourTrackDurations) :
           agg.allTourTrackDurations[i].durationSeconds = Num(0)
    /\ Len(statistics.longestSongs) = 3

\* A value that is there: not undefined, null or the empty string
Present(v) == Truthy(v)
\* Two values are the same, or both are not there
SameOrBothAbsent(a, b) == a = b \/ (~Present(a) /\ ~Present(b))
NonEmptyString(v) == v.t = "string" /\ v.s # <<>>

RarestFormatted == fn = "rarest" /\ pc = "formatted" /\ IsArray(tourShows)
LongestFormatted == fn = "longest" /\ pc = "formatted" /\ IsArray(trackDurations)

C18_WitnessLongest ==
    /\ LongestFormatted
    /\ Len(result) = 3
    /\ \E i \in 1..Len(Tracks) : Tracks[i].venue = Undefined
    /\ \E i \in 1..Len(Tracks) : Tracks[i].venue = Str(<<>>)
    /\ {result[i].venue : i \in 1..3} = {SentinelVenue}

\* The requests sent and settled by the loop of fetchTourShowsWithGaps
\* (fetchSongGaps, which it awaits, sends one request per song)
LoopEvents == SelectSeq(fetchLog, LAMBDA e : e.by = "fetchTourShowsWithGaps")
SentBefore(log, i) == Cardinality({j \in 1..i - 1 : log[j].ev = "sent"})
SettledBefore(log, i) == Cardinality({j \in 1..i - 1 : log[j].ev = "settled"})

\* C19: the per-show fetches (the setlist, then the gap of each song) are
\* sent one show at a time in ascending order of show date: a request is
\* sent only when every earlier request has settled (answered or failed),
\* no request is for an earlier show than a request before it, and a gap
\* request follows the settled setlist request of its show.
C19_OneShowAtATimeAscending ==
    LET log == LoopEvents
    IN  \A i \in 1..Len(log) :
            log[i].ev = "sent" =>
               /\ SentBefore(log, i) = SettledBefore(log, i)
               /\ \A j \in 1..i - 1 : DateAtMost(log[j].showdate, log[i].showdate)
               /\ log[i].kind = "fetchSongGap" =>
                      \E j \in 1..i - 1 : /\ log[j].ev = "settled"
                                          /\ log[j].kind = "fetchShowSetlist"
                                          /\ log[j].showdate = log[i].showdate

\* The year's shows came in descending order, and both shows of the tour
\* had their setlist and a gap fetched
C19_Witness ==
    /\ Returned
    /\ Len(agg.yearShows) > 1
    /\ DateBefore(agg.yearShows[2].showdate, agg.yearShows[1].showdate)
    /\ Len(agg.tourShows) = 2
    /\ \A n \in 1..2 :
           \E i \in 1..Len(LoopEvents) :
               /\ LoopEvents[i].kind = "fetchSongGap"
               /\ LoopEvents[i].showdate = agg.tourShows[n].showdate

\* C20: on one client, with each request awaited before the next, two
\* consecutive fetches start at least minInterval apart: 2000 ms for the
\* Phish.net client and 1000 ms for the Phish.in client.
C20_FetchesMinIntervalApart ==
    /\ client.minInterval = IF client.name = "PhishNetClient" THEN 2000 ELSE 1000
    /\ \A i \in 1..Len(client.fetchStarts) - 1 :
           client.fetchStarts[i + 1] - client.fetchStarts[i] >= client.minInterval

\* Three fetches of the Phish.net client: the second was held back until
\* exactly minInterval after the first, the third was asked for while the
\* interval was still running
C20_Witness ==
    /\ client.name = "PhishNetClient"
    /\ Len(client.fetchStarts) = 3
    /\ client.fetchStarts[2] - client.fetchStarts[1] = PhishNetMinInterval
    /\ client.readNow < client.fetchStarts[3]
    /\ client.readNow - client.fetchStarts[2] < PhishNetMinInterval

\* The same for the Phish.in client
C20_WitnessPhishIn ==
    /\ client.name = "PhishInClient"
    /\ Len(client.fetchStarts) = 3
    /\ client.fetchStarts[2] - client.fetchStarts[1] = PhishInMinInterval
    /\ client.readNow < client.fetchStarts[3]

\* How the requests for the show at position i of the tour show list came back
SetlistFailed(i) ==
    \E k \in 1..Len(agg.settled) :
        /\ agg.settled[k].show = i
        /\ agg.settled[k].kind = "fetchShowSetlist"
        /\ ~agg.settled[k].ok
GapFailed(i) ==
    \E k \in 1..Len(agg.settled) :
        /\ agg.settled[k].show = i
        /\ agg.settled[k].kind = "fetchSongGap"
        /\ ~agg.settled[k].ok
\* The gap records answered for the show, in the order of its songs
AnsweredGaps(i) ==
    SelectSeq(agg.settled, LAMBDA e : /\ e.show = i /\ e.kind = "fetchSongGap"
                                      /\ e.ok /\ e.gap.t # "null")
\* The show's observations are the answered gap records, dated with the show
ObservationsAsAnswered(i) ==
    LET obs == agg.enhancedShows[i].songGaps.items
        ans == AnsweredGaps(i)
    IN  /\ Len(obs) = Len(ans)
        /\ \A j \in 1..Len(obs) :
               /\ obs[j].songName = ans[j].gap.songName
               /\ obs[j].gap = ans[j].gap.gap
               /\ obs[j].lastPlayed = ans[j].gap.lastPlayed
               /\ obs[j].tourDate = agg.tourShows[i].showdate
OneShowPerTourShow ==
    /\ Len(agg.enhancedShows) = Len(agg.tourShows)
    /\ \A i \in 1..Len(agg.enhancedShows) :
           agg.enhancedShows[i].showDate = agg.tourShows[i].showdate

\* C21 as stated: fetchTourShowsWithGaps returns one show per tour show, in
\* the order of the tour show list; a show whose setlist request or a gap
\* request failed has an empty songGaps, and every other show has the
\* observations that were answered for it.
C21_FailedShowEmpty ==
    Returned =>
        /\ OneShowPerTourShow
        /\ \A i \in 1..Len(agg.enhancedShows) :
               IF SetlistFailed(i) \/ GapFailed(i)
               THEN agg.enhancedShows[i].songGaps.items = <<>>
               ELSE ObservationsAsAnswered(i)

\* C21, amended: fetchTourShowsWithGaps returns one show per tour show, in
\* the order of the tour show list; a show whose setlist request failed has
\* an empty songGaps; a failed gap request leaves out that song alone, so
\* every show has exactly the observations that were answered for it.
C21_OneShowPerTourShow ==
    Returned =>
        /\ OneShowPerTourShow
        /\ \A i \in 1..Len(agg.enhancedShows) :
               /\ SetlistFailed(i) => agg.enhancedShows[i].songGaps.items = <<>>
               /\ ObservationsAsAnswered(i)

\* Two shows: the setlist of the first failed; of the second, one gap
\* request failed and another was answered with a record
C21_Witness ==
    /\ Returned
    /\ Len(agg.tourShows) = 2
    /\ SetlistFailed(1)
    /\ agg.enhancedShows[1].songGaps.items = <<>>
    /\ GapFailed(2)
    /\ Len(agg.enhancedShows[2].songGaps.items) = 1

\* The step in which data/state.json becomes a record of success
RecordsSuccess ==
    stateFile' # stateFile /\ stateFile'.processingStatus = "success"
\* The step in which the catch of main has run (an error reached main)
RunFailed == runPc = "failed" /\ runPc' = "exited"

UnforcedCheck ==
    runPc = "start" /\ runPc' # "start" /\ env.apiKey /\ ~env.forceUpdate
\* Nothing recorded, the check failed, or a latest show after the recorded one
UpdateNeeded ==
    \/ ~Present(stateFile.lastProcessedShow)
    \/ checkedShowDate' = CheckFailed
    \/ /\ checkedShowDate' \in LatestShowDates
       /\ DateBefore(stateFile.lastProcessedShow, checkedShowDate')
FilesUnchanged == publishedFile' = publishedFile /\ stateFile' = stateFile

DatesPlayed ==
    {gapCall.performances[i].showdate : i \in 1..Len(gapCall.performances)}
DatesPlayedBefore == {d \in DatesPlayed : d < gapCall.currentShowDate}
Latest(dates) == CHOOSE d \in dates : \A e \in dates : e <= d

\* C24: calculateGapFromPerformances, on performances in ascending order of
\* date, returns an observation only when there is a performance on the
\* current show date and one strictly before it; the observation has a gap
\* of at least 1, the latest earlier performance date as lastPlayed and the
\* show date as tourDate; a first-ever performance yields null, and no
\* observation with gap 0 is returned.
C24_GapAtLeastOne ==
    gapCall.pc = "returned" =>
        /\ gapCall.result # NoGap =>
               /\ gapCall.currentShowDate \in DatesPlayed
               /\ DatesPlayedBefore # {}
               /\ gapCall.result.gap >= 1
               /\ gapCall.result.lastPlayed = Latest(DatesPlayedBefore)
               /\ gapCall.result.tourDate = gapCall.currentShowDate
        /\ DatesPlayedBefore = {} => gapCall.result = NoGap

\* An observation came back: two earlier performances, the later of them
\* three days or more before the show
C24_Witness ==
    /\ gapCall.pc = "returned"
    /\ gapCall.result # NoGap
    /\ Cardinality(DatesPlayedBefore) = 2
    /\ gapCall.result.gap = 1

\* A performance one day before the show: the gap is 0 and null comes back
C24_WitnessBackToBack ==
    /\ gapCall.pc = "returned"
    /\ gapCall.currentShowDate \in DatesPlayed
    /\ gapCall.currentShowDate - 1 \in DatesPlayed
    /\ gapCall.result = NoGap

\* The calculator asked for the latest show's setlist in place of the tracks
FallbackTaken ==
    \E i \in 1..Len(fetchLog) :
        fetchLog[i].by = "getFallbackTrackDurations" /\ fetchLog[i].ev = "settled"
\* Positions of a sequence at which its element occurs for the first time
FirstOccurrences(seq) ==
    {i \in 1..Len(seq) : \A j \in 1..i - 1 : seq[j] # seq[i]}
\* The k-th distinct element of a sequence, in its order
KthDistinct(seq, k) ==
    seq[CHOOSE i \in FirstOccurrences(seq) :
            Cardinality({j \in FirstOccurrences(seq) : j <= i}) = k]

\* C25: when the track-duration fetch yields no records, the calculation
\* still returns; longestSongs then holds the first min(3, n) of the n
\* distinct song names of the latest show's setlist, in setlist order, with
\* durations 600, 540, 480 and the latest show date; it is empty when the
\* setlist fetch failed as well.
C25_PlaceholderLongestSongs ==
    (Returned /\ FallbackTaken) =>
        LET longest == statistics.longestSongs
            songs == agg.latestSetlist.songs
            n == Cardinality(FirstOccurrences(songs))
        IN  IF Failed("getFallbackTrackDurations")
            THEN longest = <<>>
            ELSE /\ Len(longest) = Min(3, n)
                 /\ \A k \in 1..Len(longest) :
                        /\ longest[k].songName = Str(KthDistinct(songs, k))
                        /\ longest[k].durationSeconds = Num(600 - 60 * (k - 1))
                        /\ longest[k].showDate = agg.latestShow

\* The setlist of the latest show names a song twice among its three, or
\* has more than three songs
C25_Witness ==
    /\ Returned
    /\ FallbackTaken
    /\ ~Failed("getFallbackTrackDurations")
    /\ Len(agg.latestSetlist.songs) = 3
    /\ Len(statistics.longestSongs) = 2

C25_WitnessCut ==
    /\ Returned
    /\ FallbackTaken
    /\ Len(agg.latestSetlist.songs) > 3
    /\ Len(statistics.longestSongs) = 3

C25_WitnessFailed ==
    /\ Returned
    /\ FallbackTaken
    /\ Failed("getFallbackTrackDurations")
    /\ ~Failed("fetchTourTrackDurations")

\* C26: during the fold of calculateTourProgressiveRarestSongs, from one
\* processed observation to the next, every key of the Map stays, the gap
\* stored for a key never decreases, and the songName, tourDate and
\* tourVenue stored for it change only in a step in which its gap becomes
\* strictly larger.
C26_MapGrowsMonotonically ==
    [][(fn = "rarest" /\ pc \in {"show", "obs"}) =>
          \A i \in 1..Len(tourSongGaps) :
              \E j \in 1..Len(tourSongGaps') :
                  /\ tourSongGaps'[j].key = tourSongGaps[i].key
                  /\ tourSongGaps'[j].value.gap.n >= tourSongGaps[i].value.gap.n
                  /\ tourSongGaps'[j].value # tourSongGaps[i].value
                        => tourSongGaps'[j].value.gap.n > tourSongGaps[i].value.gap.n]_vars

\* A song's entry was replaced by a later observation with a larger gap and
\* another spelling, while a second song is in the Map
C26_Witness ==
    /\ RarestReturned
    /\ Len(tourSongGaps) = 2
    /\ \E k \in SongKeys :
           /\ FirstMaxPos(k) # FirstPos(k)
           /\ ObsAt(FirstMaxPos(k)).songName # ObsAt(FirstPos(k)).songName
           /\ FirstMaxPos(k)[1] # FirstPos(k)[1]

\* C27: when callers use one client without awaiting each other's requests,
\* any two fetches of the client still start at least minInterval apart.
C27_OverlappingFetchesApart ==
    \A i, j \in 1..Len(client.fetchStarts) :
        i < j => client.fetchStarts[j] - client.fetchStarts[i] >= client.minInterval

\* songName, gap and tourDate of the selected songs, in order
SelectedSongs(songs) ==
    [i \in 1..Len(songs) |-> <<songs[i].songName, songs[i].gap, songs[i].tourDate>>]

\* C28: on the same shows with the same gap observations, the in-class
\* calculateRarestSongs and the engine's calculateTourProgressiveRarestSongs
\* return the same songs with the same gap and tourDate in the same order,
\* also when an observation has no songName or a negative gap.
C28_InClassMatchesEngine ==
    (fn = "rarest" /\ pc = "returned" /\ inClass.pc = "returned")
        => SelectedSongs(inClass.result) = SelectedSongs(result)

\* The same for observations that all have a songName and a gap of 0 or more
C28_InClassMatchesEngineOnValid ==
    (/\ fn = "rarest" /\ pc = "returned" /\ inClass.pc = "returned"
     /\ \A i \in 1..Len(tourShows.items) :
            \A j \in 1..Len(tourShows.items[i].songGaps.items) :
                IsValidGapInfo(tourShows.items[i].songGaps.items[j]))
        => SelectedSongs(inClass.result) = SelectedSongs(result)

\* C29: across the runs, the lastProcessedShow of data/state.json never
\* moves to an earlier date: once a date is recorded, every later record is
\* that date or a later one.
C29_LastProcessedShowNeverDecreases ==
    [][Truthy(stateFile.lastProcessedShow)
          => /\ Truthy(stateFile'.lastProcessedShow)
             /\ DateAtMost(stateFile.lastProcessedShow, stateFile'.lastProcessedShow)]_vars

\* The same, unless the calculation fell back to the historical show date
C29_DecreasesOnlyToHistorical ==
    [][Truthy(stateFile.lastProcessedShow)
          => /\ Truthy(stateFile'.lastProcessedShow)
             /\ \/ DateAtMost(stateFile.lastProcessedShow, stateFile'.lastProcessedShow)
                \/ stateFile'.lastProcessedShow = HistoricalShowDate]_vars

\* fetchShowsForYear has settled, answered or failed
YearFetchSettled ==
    agg.pc \in {"fetchShowSetlist", "fetchSongGap", "returned"}

YearFetchFailed == "fetchAllTourShows" \in agg.caught

\* Positions of the year's shows dated from 2025-06-24 to the latest show
InRangePositions ==
    {i \in 1..Len(agg.yearShows) :
        /\ ~DateBefore(agg.yearShows[i].showdate, Str(<<"2025-06-24">>))
        /\ ~DateBefore(agg.latestShow, agg.yearShows[i].showdate)}

C30_WitnessBeforeStart ==
    /\ Returned
    /\ ~YearFetchFailed
    /\ agg.latestShow = Str(<<"2024-07-31">>)
    /\ Len(agg.yearShows) = 1
    /\ agg.yearShows[1].showdate = agg.latestShow
    /\ agg.tourShows = <<>>
    /\ statistics.rarestSongs = <<>>

\* The year fetch failed: the latest show alone, with songs found for it
C30_WitnessYearFetchFailed ==
    /\ Returned
    /\ YearFetchFailed
    /\ Len(agg.tourShows) = 1
    /\ statistics.rarestSongs # <<>>

====
